---- MODULE Spec2Model ----
(***************************************************************************)
(* A model of the price tracker's check paths (manual, task, cron, retry   *)
(* service), its retry scheduling and plausibility gate, the preference    *)
(* dispatch of the hybrid scraper, and the two-method extraction with its  *)
(* timeouts.  Times are counted in units of ten minutes, prices in whole   *)
(* dollars, success rates and confidences in hundredths.                   *)
(***************************************************************************)
EXTENDS Integers, Sequences, FiniteSets, TLC

VARIABLES
  now,                 \* wall clock (time.Now()), in units of ten minutes
  trackedURL,          \* the tracked_urls row of the target
  priceHistory,        \* the price_history rows of the target, oldest first
  scrapingPreferences, \* the scraping_preferences rows (at most one per url_id)
  preferences,         \* HybridPriceScraper.preferences, the in-process map
  lastCheck,           \* what the last operation on the target did
  initialScrape,       \* AddURLToTrack's goroutine: "pending" or "done"
  pcMain,              \* extractAndMatchPrices: position of the calling goroutine
  pcOCR,               \* position of the YOLO+OCR goroutine
  pcNet,               \* position of the network goroutine
  ocr,                 \* the captured locals ocrPrice, ocrErr, ocrConfidence
  net,                 \* the captured locals networkPriceData, networkErr
  world,               \* what the page and the external services would answer
  result,              \* the PriceMatchResult under construction
  final,               \* what determineFinalResult returned
  selected,            \* the case each of the two selects took
  feedbackHandlers,    \* SubmitPriceFeedback: the requests being handled at once
  extraction,          \* EnhancedOCRExtractor: one extraction in progress
  priceMatch,          \* PriceScraper.findBestPriceMatch: one call, its input and result
  localeParse,         \* LocaleParser.ParsePrice: one call, its input and result
  taskManager          \* TaskManager: tasks, taskQueue, workers and its goroutines

targetVars == <<now, trackedURL, priceHistory, lastCheck, initialScrape>>
prefVars   == <<scrapingPreferences, preferences>>
arbVars    == <<pcMain, pcOCR, pcNet, ocr, net, world, result, final, selected>>
feedbackVars == <<feedbackHandlers>>
ocrVars    == <<extraction>>
scrapeVars == <<priceMatch, localeParse>>
taskVars   == <<taskManager>>
vars       == <<now, trackedURL, priceHistory, scrapingPreferences, preferences,
                lastCheck, initialScrape, pcMain, pcOCR, pcNet, ocr, net, world, result, final,
                selected, feedbackHandlers, extraction, priceMatch, localeParse,
                taskManager>>

----------------------------------------------------------------------------
(* Bounds of the model *)

MaxNow == 11
MaxHist == 2

(* Program constants *)

NULL == -1
TenMinutes == 1
MaxAutoRetries == 5
TrustThreshold == 80
SuccessRateStep == 10
MaxSuccessRate == 100
UserChoiceConfidence == 90

(* The target, and a second tracked URL of which only the preference row   *)
(* is followed.                                                            *)
TargetID == 1
OtherID == 2
TargetURL == "https://shop.example/p/1"

Prices == {40, 100}

----------------------------------------------------------------------------
(* Product names are strings of characters: strings.Contains is a substring *)
(* test, so a name is modelled as the sequence of its characters.           *)

HasPrefixAt(s, i, kw) ==
  /\ i + Len(kw) - 1 <= Len(s)
  /\ \A j \in 1..Len(kw) : s[i + j - 1] = kw[j]

Contains(s, kw) == \E i \in 1..(Len(s) + 1) : HasPrefixAt(s, i, kw)

UpperToLower ==
  [c \in {"A","B","C","D","E","F","G","H","I","J","K","L","M","N","O","P","Q","R",
          "S","T","U","V","W","X","Y","Z"} |->
     CASE c = "A" -> "a" [] c = "B" -> "b" [] c = "C" -> "c" [] c = "D" -> "d"
       [] c = "E" -> "e" [] c = "F" -> "f" [] c = "G" -> "g" [] c = "H" -> "h"
       [] c = "I" -> "i" [] c = "J" -> "j" [] c = "K" -> "k" [] c = "L" -> "l"
       [] c = "M" -> "m" [] c = "N" -> "n" [] c = "O" -> "o" [] c = "P" -> "p"
       [] c = "Q" -> "q" [] c = "R" -> "r" [] c = "S" -> "s" [] c = "T" -> "t"
       [] c = "U" -> "u" [] c = "V" -> "v" [] c = "W" -> "w" [] c = "X" -> "x"
       [] c = "Y" -> "y" [] c = "Z" -> "z"]

ToLower(s) ==
  [i \in 1..Len(s) |-> IF s[i] \in DOMAIN UpperToLower THEN UpperToLower[s[i]] ELSE s[i]]

luxuryKeywords ==
  {
    <<"c","h","l","o","e">>, <<"l","o","u","i","s"," ","v","u","i","t","t","o","n">>,
    <<"g","u","c","c","i">>, <<"h","e","r","m","e","s">>, <<"c","h","a","n","e","l">>,
    <<"p","r","a","d","a">>, <<"f","e","n","d","i">>, <<"b","a","l","e","n","c","i","a","g","a">>,
    <<"d","i","o","r">>, <<"c","e","l","i","n","e">>, <<"g","i","v","e","n","c","h","y">>,
    <<"s","a","i","n","t"," ","l","a","u","r","e","n","t">>,
    <<"v","a","l","e","n","t","i","n","o">>, <<"b","o","t","t","e","g","a">>,
    <<"m","o","y","n","a","t">>, <<"g","o","y","a","r","d">>, <<"d","e","l","v","a","u","x">>,
    <<"m","a","n","s","u","r"," ","g","a","v","r","i","e","l">>,
    <<"s","t","r","a","t","h","b","e","r","r","y">>, <<"a","s","p","i","n","a","l">>,
    <<"m","u","l","b","e","r","r","y">>, <<"l","e","a","t","h","e","r">>,
    <<"p","r","e","m","i","u","m">>, <<"l","u","x","u","r","y">>,
    <<"d","e","s","i","g","n","e","r">>, <<"h","a","n","d","b","a","g">>, <<"b","a","g">>,
    <<"p","u","r","s","e">>, <<"t","o","t","e">>, <<"w","a","l","l","e","t">>,
    <<"c","l","u","t","c","h">>, <<"c","r","o","s","s","b","o","d","y">>,
    <<"s","h","o","u","l","d","e","r"," ","b","a","g">>, <<"b","a","c","k","p","a","c","k">>,
    <<"d","u","f","f","l","e">>
  }

electronicsKeywords ==
  {
    <<"p","h","o","n","e">>, <<"s","m","a","r","t","p","h","o","n","e">>,
    <<"l","a","p","t","o","p">>, <<"c","o","m","p","u","t","e","r">>, <<"t","a","b","l","e","t">>,
    <<"i","p","a","d">>, <<"i","p","h","o","n","e">>, <<"s","a","m","s","u","n","g">>,
    <<"m","a","c","b","o","o","k">>, <<"d","e","l","l">>, <<"h","p">>, <<"l","e","n","o","v","o">>,
    <<"a","s","u","s">>, <<"a","c","e","r">>, <<"m","s","i">>, <<"g","a","m","i","n","g">>,
    <<"c","o","n","s","o","l","e">>, <<"p","l","a","y","s","t","a","t","i","o","n">>,
    <<"x","b","o","x">>, <<"n","i","n","t","e","n","d","o">>, <<"s","w","i","t","c","h">>,
    <<"h","e","a","d","p","h","o","n","e","s">>, <<"e","a","r","b","u","d","s">>,
    <<"a","i","r","p","o","d","s">>, <<"c","a","m","e","r","a">>, <<"c","a","n","o","n">>,
    <<"n","i","k","o","n">>, <<"s","o","n","y">>, <<"g","o","p","r","o">>, <<"d","r","o","n","e">>,
    <<"t","v">>, <<"t","e","l","e","v","i","s","i","o","n">>, <<"m","o","n","i","t","o","r">>,
    <<"k","e","y","b","o","a","r","d">>, <<"m","o","u","s","e">>, <<"s","p","e","a","k","e","r">>,
    <<"b","l","u","e","t","o","o","t","h">>, <<"w","i","r","e","l","e","s","s">>,
    <<"c","h","a","r","g","e","r">>, <<"c","a","b","l","e">>
  }

fashionKeywords ==
  {
    <<"s","h","i","r","t">>, <<"t","-","s","h","i","r","t">>, <<"p","a","n","t","s">>,
    <<"j","e","a","n","s">>, <<"d","r","e","s","s">>, <<"s","k","i","r","t">>,
    <<"j","a","c","k","e","t">>, <<"c","o","a","t">>, <<"s","w","e","a","t","e","r">>,
    <<"s","w","e","a","t","s","h","i","r","t">>, <<"h","o","o","d","i","e">>,
    <<"b","l","a","z","e","r">>, <<"s","u","i","t">>, <<"t","i","e">>, <<"s","c","a","r","f">>,
    <<"h","a","t">>, <<"c","a","p">>, <<"s","h","o","e","s">>, <<"s","n","e","a","k","e","r","s">>,
    <<"b","o","o","t","s">>, <<"s","a","n","d","a","l","s">>, <<"h","e","e","l","s">>,
    <<"f","l","a","t","s">>, <<"j","e","w","e","l","r","y">>, <<"w","a","t","c","h">>,
    <<"r","i","n","g">>, <<"n","e","c","k","l","a","c","e">>, <<"b","r","a","c","e","l","e","t">>,
    <<"e","a","r","r","i","n","g","s">>, <<"s","u","n","g","l","a","s","s","e","s">>,
    <<"b","e","l","t">>, <<"w","a","l","l","e","t">>, <<"s","o","c","k","s">>,
    <<"u","n","d","e","r","w","e","a","r">>, <<"l","i","n","g","e","r","i","e">>,
    <<"s","w","i","m","w","e","a","r">>, <<"a","c","t","i","v","e","w","e","a","r">>,
    <<"a","t","h","l","e","t","i","c">>, <<"s","p","o","r","t","s","w","e","a","r">>
  }

ProductNames ==
  { <<"D","e","s","k"," ","L","a","m","p">>,
    <<"G","u","c","c","i"," ","T","o","t","e">>,
    <<"i","P","h","o","n","e"," ","1","5">>,
    <<"D","e","n","i","m"," ","J","a","c","k","e","t">> }

----------------------------------------------------------------------------
(* models.TrackedURL *)

HasPrice(t) == t.CurrentPrice # NULL

GetCurrentPrice(t) == IF t.CurrentPrice # NULL THEN t.CurrentPrice ELSE 0

CanRetry(t) == IF t.NextRetryAt = NULL THEN TRUE ELSE now > t.NextRetryAt

ShouldRetry(t) == t.LastFailedAt # NULL /\ CanRetry(t) /\ t.RetryCount < MaxAutoRetries

GetRetryDelay(retryCount) ==
  CASE retryCount = 0 -> 1 * TenMinutes
    [] retryCount = 1 -> 3 * TenMinutes
    [] retryCount = 2 -> 6 * TenMinutes
    [] retryCount = 3 -> 18 * TenMinutes
    [] retryCount = 4 -> 36 * TenMinutes
    [] OTHER -> 144 * TenMinutes

isLuxuryProduct(productName) == \E kw \in luxuryKeywords : Contains(productName, kw)

isElectronicsProduct(productName) == \E kw \in electronicsKeywords : Contains(productName, kw)

isFashionProduct(productName) == \E kw \in fashionKeywords : Contains(productName, kw)

getPriceChangeThresholds(t) ==
  LET productName == ToLower(t.Name) IN
  IF isLuxuryProduct(productName) THEN [MinDrop |-> -80, MaxIncrease |-> 200]
  ELSE IF isElectronicsProduct(productName) THEN [MinDrop |-> -60, MaxIncrease |-> 100]
  ELSE IF isFashionProduct(productName) THEN [MinDrop |-> -70, MaxIncrease |-> 150]
  ELSE [MinDrop |-> -50, MaxIncrease |-> 100]

(* getPriceChangeThresholds reads only the name: its value for each of the *)
(* product names, computed once.                                           *)
ThresholdsByName ==
  [name \in ProductNames |-> getPriceChangeThresholds([Name |-> name])]

(* IsPriceChangeRealistic with priceChange > MinDrop and < MaxIncrease. *)
IsPriceChangeRealisticStrict(t, newPrice) ==
  IF ~HasPrice(t) THEN TRUE
  ELSE LET oldPrice == GetCurrentPrice(t) IN
       IF oldPrice <= 0 THEN TRUE
       ELSE LET thresholds == ThresholdsByName[t.Name] IN
            /\ (newPrice - oldPrice) * 100 > thresholds.MinDrop * oldPrice
            /\ (newPrice - oldPrice) * 100 < thresholds.MaxIncrease * oldPrice

(* priceChange = ((newPrice - oldPrice) / oldPrice) * 100, compared without *)
(* dividing: oldPrice is positive where the comparison is made.            *)
IsPriceChangeRealistic(t, newPrice) ==
  IF ~HasPrice(t) THEN TRUE
  ELSE LET oldPrice == GetCurrentPrice(t) IN
       IF oldPrice <= 0 THEN TRUE
       ELSE LET thresholds == ThresholdsByName[t.Name] IN
            /\ (newPrice - oldPrice) * 100 >= thresholds.MinDrop * oldPrice
            /\ (newPrice - oldPrice) * 100 <= thresholds.MaxIncrease * oldPrice

----------------------------------------------------------------------------
(* repository.URLRepository, on the row of the target *)

(* MarkPriceCheckFailed that also clears current_price. *)
MarkPriceCheckFailedClearingPrice(t) ==
  [t EXCEPT !.LastFailedAt = now,
            !.RetryCount = t.RetryCount + 1,
            !.NextRetryAt = now + 1 * TenMinutes,
            !.CurrentPrice = NULL]

MarkPriceCheckFailed(t) ==
  [t EXCEPT !.LastFailedAt = now,
            !.RetryCount = t.RetryCount + 1,
            !.NextRetryAt = now + 1 * TenMinutes]

MarkPriceCheckSuccess(t) ==
  [t EXCEPT !.LastFailedAt = NULL, !.RetryCount = 0, !.NextRetryAt = NULL]

UpdateURLPrice(t, price) == [t EXCEPT !.CurrentPrice = price]

AddPriceHistory(h, price) == Append(h, price)

(* GetURLsForRetry with the condition retry_count < 5 left out. *)
GetURLsForRetryAnyCount ==
  IF /\ trackedURL.LastFailedAt # NULL
     /\ (trackedURL.NextRetryAt = NULL \/ trackedURL.NextRetryAt <= now)
  THEN {trackedURL} ELSE {}

GetURLsForRetry ==
  IF /\ trackedURL.LastFailedAt # NULL
     /\ (trackedURL.NextRetryAt = NULL \/ trackedURL.NextRetryAt <= now)
     /\ trackedURL.RetryCount < MaxAutoRetries
  THEN {trackedURL} ELSE {}

----------------------------------------------------------------------------
(* repository.PreferenceRepository, on the scraping_preferences table *)

AllowedMethods == {"network", "ocr", "hybrid"}

ScrapingPreferencesColumns ==
  {"url_id", "method", "confidence", "success_rate", "last_used", "created_at", "updated_at"}

GetPreference(rows, urlID) == {row \in rows : row.url_id = urlID}

(* INSERT ... ON CONFLICT (url_id) DO UPDATE: a new row starts with        *)
(* success_rate 1.0, an existing row keeps its success_rate.  The CHECK    *)
(* constraint on method makes the statement fail and change nothing.       *)
(* A table without the CHECK constraint on method. *)
SavePreferenceAnyMethod(method) == TRUE

SavePreferenceOK(method) == method \in AllowedMethods

SavePreference(rows, urlID, method, confidence) ==
  IF ~SavePreferenceOK(method) THEN rows
  ELSE IF GetPreference(rows, urlID) = {}
       THEN rows \cup {[url_id |-> urlID, method |-> method, confidence |-> confidence,
                        success_rate |-> MaxSuccessRate]}
       ELSE {IF row.url_id = urlID
             THEN [row EXCEPT !.method = method, !.confidence = confidence]
             ELSE row : row \in rows}

(* The UPDATE names "success" inside its CASE, but the statement is given  *)
(* only $1 = urlID and $2 = now: "success" is read as a column, the table  *)
(* has none, the statement fails and no row changes.                       *)
UpdateSuccessRateStatementOK == "success" \in ScrapingPreferencesColumns

Least(a, b) == IF a < b THEN a ELSE b

Greatest(a, b) == IF a > b THEN a ELSE b

(* UpdateSuccessRate whose statement runs and adds or subtracts the step   *)
(* without LEAST and GREATEST.                                             *)
UpdateSuccessRateUnclamped(rows, urlID, success) ==
  {IF row.url_id = urlID
   THEN [row EXCEPT !.success_rate =
           IF success THEN row.success_rate + SuccessRateStep
           ELSE row.success_rate - SuccessRateStep]
   ELSE row : row \in rows}

UpdateSuccessRate(rows, urlID, success) ==
  IF ~UpdateSuccessRateStatementOK THEN rows
  ELSE {IF row.url_id = urlID
        THEN [row EXCEPT !.success_rate =
                IF success THEN Least(row.success_rate + SuccessRateStep, MaxSuccessRate)
                ELSE Greatest(row.success_rate - SuccessRateStep, 0)]
        ELSE row : row \in rows}

----------------------------------------------------------------------------
(* scraper.HybridPriceScraper: the preference dispatch *)

SetPreferenceMap(prefs, key, method) ==
  [k \in DOMAIN prefs \cup {key} |-> IF k = key THEN method ELSE prefs[k]]

(* The database preference is used only with a success rate above 0.8.     *)
TrustedDBPreference(rows, urlID) ==
  {row \in GetPreference(rows, urlID) : row.success_rate > TrustThreshold}

UsePreferred(rows, prefs, url, urlID) ==
  \/ TrustedDBPreference(rows, urlID) # {}
  \/ url \in DOMAIN prefs

PreferredMethod(rows, prefs, url, urlID) ==
  IF TrustedDBPreference(rows, urlID) # {}
  THEN (CHOOSE row \in TrustedDBPreference(rows, urlID) : TRUE).method
  ELSE prefs[url]

(* Which procedure ScrapePriceWithHybridMethod runs: ScrapePrice           *)
(* ("network"), scrapeWithOCRMethod ("ocr") or performHybridScraping       *)
(* ("hybrid").                                                             *)
DispatchMode(rows, prefs, url, urlID) ==
  IF UsePreferred(rows, prefs, url, urlID)
  THEN CASE PreferredMethod(rows, prefs, url, urlID) = "network" -> "network"
         [] PreferredMethod(rows, prefs, url, urlID) = "ocr" -> "ocr"
         [] OTHER -> "hybrid"
  ELSE "hybrid"

(* performHybridScraping reports a success to the preference repository;   *)
(* the single-method procedures report nothing.                            *)
PreferencesAfterScrape(rows, mode, ok) ==
  IF mode = "hybrid" /\ ok THEN UpdateSuccessRate(rows, TargetID, TRUE) ELSE rows

(* What a scrape can return: a price, or an error. *)
ScrapeOutcomes ==
  {[ok |-> TRUE, price |-> p] : p \in Prices} \cup {[ok |-> FALSE, price |-> 0]}

----------------------------------------------------------------------------
(* The record of the last operation on the target: the path that ran, how  *)
(* the extraction ended, which procedure the dispatch ran, the extracted   *)
(* price, the target's price before, whether a history row was written,    *)
(* whether CheckAlerts was called, the retry time the response names, and  *)
(* the time of the operation.                                              *)

Check(path, outcome, mode, price, priorPrice, wroteHistory, checkedAlerts, announced) ==
  [path |-> path, outcome |-> outcome, mode |-> mode, price |-> price,
   priorPrice |-> priorPrice, wroteHistory |-> wroteHistory,
   checkedAlerts |-> checkedAlerts, announcedRetryAt |-> announced, at |-> now]

NoCheck == Check("none", "none", "none", 0, NULL, FALSE, FALSE, NULL)

CheckPaths == {"manual", "task", "cron", "retry"}

Mode == DispatchMode(scrapingPreferences, preferences, TargetURL, TargetID)

HistoryHasRoom == Len(priceHistory) < MaxHist

----------------------------------------------------------------------------
(* handlers.AddURLToTrack: the goroutine that fetches the initial price *)

InitialPriceScrape ==
  /\ initialScrape = "pending"
  /\ initialScrape' = "done"
  /\ \E r \in ScrapeOutcomes :
       /\ r.ok => HistoryHasRoom
       /\ scrapingPreferences' = PreferencesAfterScrape(scrapingPreferences, Mode, r.ok)
       /\ IF ~r.ok
          THEN /\ lastCheck' = Check("initial", "failed", Mode, 0, trackedURL.CurrentPrice,
                                     FALSE, FALSE, NULL)
               /\ UNCHANGED <<trackedURL, priceHistory>>
          ELSE /\ trackedURL' = UpdateURLPrice(trackedURL, r.price)
               /\ priceHistory' = AddPriceHistory(priceHistory, r.price)
               /\ lastCheck' = Check("initial", "ok", Mode, r.price, trackedURL.CurrentPrice,
                                     TRUE, FALSE, NULL)
  /\ UNCHANGED <<now, preferences>>
  /\ UNCHANGED <<arbVars, feedbackVars, ocrVars, scrapeVars, taskVars>>

----------------------------------------------------------------------------
(* handlers.CheckPriceNow: the manual check *)

(* CheckPriceNow writes the price and the history row before it looks at   *)
(* the plausibility of the change; only CheckAlerts is behind the gate.    *)
CheckPriceNowWritesHistory(url, price) == TRUE

CheckPriceNowChecksAlerts(url, price) == IsPriceChangeRealistic(url, price)

CheckPriceNow ==
  /\ \E r \in ScrapeOutcomes :
       LET url == trackedURL IN
       /\ r.ok => HistoryHasRoom
       /\ IF ~CanRetry(url)
          THEN /\ lastCheck' = Check("manual", "rejected", "none", 0, url.CurrentPrice,
                                     FALSE, FALSE, NULL)
               /\ UNCHANGED <<trackedURL, priceHistory, scrapingPreferences>>
          ELSE /\ scrapingPreferences' =
                    PreferencesAfterScrape(scrapingPreferences, Mode, r.ok)
               /\ IF ~r.ok
                  THEN /\ trackedURL' = MarkPriceCheckFailed(trackedURL)
                       /\ lastCheck' = Check("manual", "failed", Mode, 0, url.CurrentPrice,
                                             FALSE, FALSE,
                                             now + GetRetryDelay(url.RetryCount))
                       /\ UNCHANGED priceHistory
                  ELSE /\ trackedURL' =
                            UpdateURLPrice(MarkPriceCheckSuccess(trackedURL), r.price)
                       /\ priceHistory' =
                            IF CheckPriceNowWritesHistory(url, r.price)
                            THEN AddPriceHistory(priceHistory, r.price)
                            ELSE priceHistory
                       /\ lastCheck' = Check("manual", "ok", Mode, r.price, url.CurrentPrice,
                                             CheckPriceNowWritesHistory(url, r.price),
                                             CheckPriceNowChecksAlerts(url, r.price), NULL)
  /\ UNCHANGED <<now, preferences, initialScrape>>
  /\ UNCHANGED <<arbVars, feedbackVars, ocrVars, scrapeVars, taskVars>>

----------------------------------------------------------------------------
(* handlers.performPriceCheck: the check a TaskManager worker runs for a   *)
(* task submitted by CheckPriceNowAsync                                    *)

PerformPriceCheck ==
  /\ \E r \in ScrapeOutcomes :
       LET url == trackedURL IN
       /\ r.ok => HistoryHasRoom
       /\ IF ~CanRetry(url)
          THEN /\ lastCheck' = Check("task", "rejected", "none", 0, url.CurrentPrice,
                                     FALSE, FALSE, NULL)
               /\ UNCHANGED <<trackedURL, priceHistory, scrapingPreferences>>
          ELSE /\ scrapingPreferences' =
                    PreferencesAfterScrape(scrapingPreferences, Mode, r.ok)
               /\ IF ~r.ok
                  THEN /\ trackedURL' = MarkPriceCheckFailed(trackedURL)
                       /\ lastCheck' = Check("task", "failed", Mode, 0, url.CurrentPrice,
                                             FALSE, FALSE, NULL)
                       /\ UNCHANGED priceHistory
                  ELSE /\ trackedURL' =
                            UpdateURLPrice(MarkPriceCheckSuccess(trackedURL), r.price)
                       /\ priceHistory' = AddPriceHistory(priceHistory, r.price)
                       /\ lastCheck' = Check("task", "ok", Mode, r.price, url.CurrentPrice,
                                             TRUE, TRUE, NULL)
  /\ UNCHANGED <<now, preferences, initialScrape>>
  /\ UNCHANGED <<arbVars, feedbackVars, ocrVars, scrapeVars, taskVars>>

----------------------------------------------------------------------------
(* scheduler.PriceChecker.checkURLPrice: the scheduled check, run by       *)
(* checkAllPrices for every active URL; it calls PriceScraper.ScrapePrice  *)
(* and never touches the retry columns.                                    *)

CheckURLPriceUpdates(url, price) == IsPriceChangeRealistic(url, price)

CheckURLPrice ==
  /\ \E r \in ScrapeOutcomes :
       LET url == trackedURL IN
       /\ r.ok => HistoryHasRoom
       /\ IF ~r.ok
          THEN /\ lastCheck' = Check("cron", "failed", "network", 0, url.CurrentPrice,
                                     FALSE, FALSE, NULL)
               /\ UNCHANGED <<trackedURL, priceHistory>>
          ELSE IF CheckURLPriceUpdates(url, r.price)
               THEN /\ trackedURL' = UpdateURLPrice(trackedURL, r.price)
                    /\ priceHistory' = AddPriceHistory(priceHistory, r.price)
                    /\ lastCheck' = Check("cron", "ok", "network", r.price, url.CurrentPrice,
                                          TRUE, TRUE, NULL)
               ELSE /\ lastCheck' = Check("cron", "ok", "network", r.price, url.CurrentPrice,
                                          FALSE, FALSE, NULL)
                    /\ UNCHANGED <<trackedURL, priceHistory>>
  /\ UNCHANGED <<now, scrapingPreferences, preferences, initialScrape>>
  /\ UNCHANGED <<arbVars, feedbackVars, ocrVars, scrapeVars, taskVars>>

----------------------------------------------------------------------------
(* scheduler.RetryService.processRetries, run at every tick of the retry   *)
(* service with the functions main wires in (retryFuncs)                   *)

(* retryFuncs.GetURLsForRetry hands over models.TrackedURL values.  Every  *)
(* method of TrackedURL has a pointer receiver, so the method set of the   *)
(* value is empty; GetID, GetURL, GetName and GetRetryCount are declared   *)
(* nowhere.                                                                *)
TrackedURLValueMethods == {}

RetryableMethods == {"ShouldRetry", "GetID", "GetURL", "GetName", "GetRetryCount"}

(* url, ok := urlInterface.(interface{ ShouldRetry() bool; ... }) *)
AssertRetryable == RetryableMethods \subseteq TrackedURLValueMethods

(* *models.PriceData declares no methods. *)
PriceDataMethods == {}

(* priceData.(interface{ GetCurrentPrice() float64 }) *)
AssertHasCurrentPrice == {"GetCurrentPrice"} \subseteq PriceDataMethods

ProcessRetries ==
  /\ LET urls == GetURLsForRetry IN
     IF urls = {}
     THEN /\ lastCheck' = Check("retry", "none_due", "none", 0, trackedURL.CurrentPrice,
                                FALSE, FALSE, NULL)
          /\ UNCHANGED <<trackedURL, priceHistory, scrapingPreferences>>
     ELSE IF ~AssertRetryable
     THEN /\ lastCheck' = Check("retry", "invalid_type", "none", 0, trackedURL.CurrentPrice,
                                FALSE, FALSE, NULL)
          /\ UNCHANGED <<trackedURL, priceHistory, scrapingPreferences>>
     ELSE IF ~ShouldRetry(trackedURL)
     THEN /\ lastCheck' = Check("retry", "skipped", "none", 0, trackedURL.CurrentPrice,
                                FALSE, FALSE, NULL)
          /\ UNCHANGED <<trackedURL, priceHistory, scrapingPreferences>>
     ELSE \E r \in ScrapeOutcomes :
            /\ r.ok => HistoryHasRoom
            /\ scrapingPreferences' =
                 PreferencesAfterScrape(scrapingPreferences, Mode, r.ok)
            /\ IF ~r.ok
               THEN /\ trackedURL' = MarkPriceCheckFailed(trackedURL)
                    /\ lastCheck' = Check("retry", "failed", Mode, 0,
                                          trackedURL.CurrentPrice, FALSE, FALSE, NULL)
                    /\ UNCHANGED priceHistory
               ELSE /\ trackedURL' =
                         UpdateURLPrice(MarkPriceCheckSuccess(trackedURL), r.price)
                    /\ priceHistory' = AddPriceHistory(priceHistory, r.price)
                    /\ lastCheck' = Check("retry", "ok", Mode, r.price,
                                          trackedURL.CurrentPrice, TRUE,
                                          AssertHasCurrentPrice, NULL)
  /\ UNCHANGED <<now, preferences, initialScrape>>
  /\ UNCHANGED <<arbVars, feedbackVars, ocrVars, scrapeVars, taskVars>>

----------------------------------------------------------------------------
(* handlers.HandleUserChoice and HybridPriceScraper.SaveUserChoice *)

(* chosen_source and chosen_method are only required to be non-empty: a    *)
(* documented source and a tracked URL as source; the documented methods   *)
(* and one the table's CHECK constraint refuses.                           *)
ChosenSources == {"network", TargetURL}

ChosenMethods == {"network", "ocr", "hybrid", "yolo_ocr"}

(* The key under which SaveUserChoice stores the method in the map. *)
UserChoiceKey(choice) == choice.ChosenSource

SaveUserChoiceOK(choice) == SavePreferenceOK(choice.ChosenMethod)

HandleUserChoice ==
  /\ \E id \in {TargetID, OtherID}, source \in ChosenSources,
        method \in ChosenMethods, price \in Prices :
       LET choice == [URLID |-> id, ChosenPrice |-> price, ChosenSource |-> source,
                      ChosenMethod |-> method]
       IN
       /\ id = TargetID => HistoryHasRoom
       /\ IF ~SaveUserChoiceOK(choice)
          THEN /\ lastCheck' = Check("choice", "failed", "none", 0, trackedURL.CurrentPrice,
                                     FALSE, FALSE, NULL)
               /\ UNCHANGED <<trackedURL, priceHistory, scrapingPreferences, preferences>>
          ELSE /\ scrapingPreferences' =
                    SavePreference(scrapingPreferences, id, choice.ChosenMethod,
                                   UserChoiceConfidence)
               /\ preferences' =
                    SetPreferenceMap(preferences, UserChoiceKey(choice), choice.ChosenMethod)
               /\ IF id = TargetID
                  THEN /\ trackedURL' = UpdateURLPrice(trackedURL, choice.ChosenPrice)
                       /\ priceHistory' = AddPriceHistory(priceHistory, choice.ChosenPrice)
                       /\ lastCheck' = Check("choice", "ok", "none", choice.ChosenPrice,
                                             trackedURL.CurrentPrice, TRUE, FALSE, NULL)
                  ELSE /\ lastCheck' = Check("choice", "ok", "none", 0,
                                             trackedURL.CurrentPrice, FALSE, FALSE, NULL)
                       /\ UNCHANGED <<trackedURL, priceHistory>>
  /\ UNCHANGED <<now, initialScrape>>
  /\ UNCHANGED <<arbVars, feedbackVars, ocrVars, scrapeVars, taskVars>>

----------------------------------------------------------------------------
(* handlers.SubmitPriceFeedback *)

(* The preference the handler works on: the row of the target; the default *)
(* it builds when GetPreference returns an error; none when GetPreference  *)
(* returns (nil, nil) for a target without a row, and the handler then     *)
(* panics on pref.Method.                                                  *)
DefaultFeedbackRate == 50

FeedbackPreference(rows, urlID, getFails) ==
  IF getFails
  THEN {[url_id |-> urlID, method |-> "hybrid", confidence |-> DefaultFeedbackRate,
         success_rate |-> DefaultFeedbackRate]}
  ELSE GetPreference(rows, urlID)

(* strings.Contains(pref.Method, "yolo") || strings.Contains(pref.Method,  *)
(* "ocr"), on the methods a preference can hold.                           *)
FeedbackAlternativeMethod(method) ==
  IF method \in {"ocr", "yolo_ocr"} THEN "network" ELSE "yolo_ocr"

(* Which branch of the handler a request takes: primary_correct is tested *)
(* first, alternative_correct second.                                      *)
FeedbackKind(primaryCorrect, alternativeCorrect) ==
  IF primaryCorrect THEN "primary"
  ELSE IF alternativeCorrect THEN "alternative" ELSE "neither"

(* The handler adjusts pref.SuccessRate in memory and passes it to         *)
(* SavePreference, whose third parameter is the confidence.  lastCheck     *)
(* records the request's branch as the mode and how the handler ended:     *)
(* "ok" (200), "failed" (SavePreference returned an error, 500) or "panic" *)
(* (pref is nil); the path is "feedback_default" where the handler worked  *)
(* on the default preference it builds after an error of GetPreference.    *)
SubmitPriceFeedback ==
  /\ \E primaryCorrect \in BOOLEAN, alternativeCorrect \in BOOLEAN, getFails \in BOOLEAN :
       LET prefs == FeedbackPreference(scrapingPreferences, TargetID, getFails)
           kind == FeedbackKind(primaryCorrect, alternativeCorrect)
       IN
       IF prefs = {}
       THEN /\ lastCheck' = Check("feedback", "panic", kind, 0, trackedURL.CurrentPrice,
                                  FALSE, FALSE, NULL)
            /\ UNCHANGED scrapingPreferences
       ELSE LET pref == CHOOSE row \in prefs : TRUE
                method == IF kind = "alternative"
                          THEN FeedbackAlternativeMethod(pref.method)
                          ELSE pref.method
                rate == IF kind \in {"primary", "alternative"}
                        THEN Least(MaxSuccessRate, pref.success_rate + SuccessRateStep)
                        ELSE Greatest(0, pref.success_rate - SuccessRateStep)
            IN /\ scrapingPreferences' =
                    SavePreference(scrapingPreferences, TargetID, method, rate)
               /\ lastCheck' = Check(IF getFails THEN "feedback_default" ELSE "feedback",
                                     IF SavePreferenceOK(method) THEN "ok" ELSE "failed",
                                     kind, 0, trackedURL.CurrentPrice, FALSE, FALSE, NULL)
  /\ UNCHANGED <<now, trackedURL, priceHistory, preferences, initialScrape>>
  /\ UNCHANGED <<arbVars, feedbackVars, ocrVars, scrapeVars, taskVars>>

(* Two feedback requests for the target handled at once, each by its own   *)
(* goroutine of the HTTP server.  The handler takes no lock and opens no   *)
(* transaction: its GetPreference and its SavePreference are two           *)
(* statements, and a step of the model is one statement.  "overlapped"     *)
(* says that the other request had read and not yet written when this one  *)
(* read.                                                                   *)
FeedbackRequests == {"first", "second"}

FeedbackKinds == {"primary", "alternative", "neither"}

FeedbackGetPreference(h) ==
  /\ feedbackHandlers[h].pc = "received"
  /\ LET prefs == GetPreference(scrapingPreferences, TargetID) IN
     feedbackHandlers' =
       [feedbackHandlers EXCEPT ![h] =
          [@ EXCEPT !.pc = IF prefs = {} THEN "panicked" ELSE "loaded",
                    !.prefs = prefs,
                    !.overlapped = \E g \in FeedbackRequests \ {h} :
                                     feedbackHandlers[g].pc = "loaded"]]
  /\ UNCHANGED <<targetVars, prefVars, arbVars, ocrVars, scrapeVars, taskVars>>

FeedbackSavePreference(h) ==
  /\ feedbackHandlers[h].pc = "loaded"
  /\ LET pref == CHOOSE row \in feedbackHandlers[h].prefs : TRUE
         kind == feedbackHandlers[h].kind
         method == IF kind = "alternative"
                   THEN FeedbackAlternativeMethod(pref.method)
                   ELSE pref.method
         rate == IF kind \in {"primary", "alternative"}
                 THEN Least(MaxSuccessRate, pref.success_rate + SuccessRateStep)
                 ELSE Greatest(0, pref.success_rate - SuccessRateStep)
     IN /\ scrapingPreferences' = SavePreference(scrapingPreferences, TargetID, method, rate)
        /\ feedbackHandlers' =
             [feedbackHandlers EXCEPT ![h].pc =
                IF SavePreferenceOK(method) THEN "answered" ELSE "failed"]
  /\ UNCHANGED <<targetVars, preferences, arbVars, ocrVars, scrapeVars, taskVars>>

ConcurrentGetPreference == \E h \in FeedbackRequests : FeedbackGetPreference(h)

ConcurrentSavePreference == \E h \in FeedbackRequests : FeedbackSavePreference(h)

----------------------------------------------------------------------------
(* HybridPriceScraper.extractAndMatchPrices: what the page and the         *)
(* external services would answer                                          *)

ArbURLs ==
  { <<"s","h","o","p",".","e","x","/","p","/","1">>,
    <<"w","w","w",".","A","m","a","z","o","n",".","d","e","/","d","p","/","1">> }

VisionPrices == {40, 100, 1200}
NetworkPrices == {40, 102, 1200}
VisionConfidences == {60, 90}
NetworkConfidences == {0}

Answer(kind, price, confidence) ==
  [kind |-> kind, price |-> price, confidence |-> confidence]

(* takeScreenshot fails; ExtractPriceWithYOLO returns an error, a result   *)
(* without success, or a price with the recognizer's confidence.           *)
VisionAnswers ==
  {Answer("screenshot_error", 0, 0), Answer("http_error", 0, 0), Answer("no_price", 0, 0)}
    \cup {Answer("price", p, c) : p \in VisionPrices, c \in VisionConfidences}

(* ExtractFromNetworkRequests returns (nil, error) or (data, nil); no      *)
(* return of it sets the data's Confidence or Source, so they are 0 and    *)
(* the empty string.                                                       *)
NetworkAnswers ==
  {Answer("error", 0, 0)}
    \cup {Answer("data", p, c) : p \in NetworkPrices, c \in NetworkConfidences}

(* extractFromHTML, the fallback inside ScrapePrice: the price it finds on *)
(* the page, 0 where it returns an error.                                  *)
HTMLAnswers == {0, 40}

Worlds ==
  [url : ArbURLs, vision : VisionAnswers, network : NetworkAnswers, html : HTMLAnswers]

NilPriceData == Answer("nil", 0, 0)

isAmazonDomain(url) ==
  \/ Contains(ToLower(url), <<"a","m","a","z","o","n",".","c","o","m">>)
  \/ Contains(ToLower(url), <<"a","m","a","z","o","n",".">>)
  \/ Contains(ToLower(url), <<"a","m","a","z","o","n">>)

(* fmt.Sprintf("%.2f", price) read back by LocaleParser.ParsePrice: the    *)
(* first pattern, us_uk, matches one to three leading digits, then groups  *)
(* of a comma and three digits, then a dot and two digits; for a whole     *)
(* number of dollars with more than three digits it matches the first      *)
(* three digits and nothing else.                                          *)
RECURSIVE LeadingThreeDigits(_)
LeadingThreeDigits(n) == IF n < 1000 THEN n ELSE LeadingThreeDigits(n \div 10)

ParsePriceOfSprintf(price) == LeadingThreeDigits(price)

(* pricesMatch with percentageDiff < threshold. *)
pricesMatchBelowThreshold(price1, price2) ==
  IF price1 <= 0 \/ price2 <= 0
  THEN FALSE
  ELSE LET diff == IF price1 >= price2 THEN price1 - price2 ELSE price2 - price1
           threshold == IF price1 + price2 > 200 THEN 3 ELSE 5
       IN diff * 200 < threshold * (price1 + price2)

(* pricesMatch: diff / avg * 100 <= threshold, with avg = (p1 + p2) / 2,   *)
(* multiplied out.                                                         *)
pricesMatch(price1, price2) ==
  IF price1 <= 0 \/ price2 <= 0
  THEN FALSE
  ELSE LET diff == IF price1 >= price2 THEN price1 - price2 ELSE price2 - price1
           threshold == IF price1 + price2 > 200 THEN 3 ELSE 5
       IN diff * 200 <= threshold * (price1 + price2)

EmptyResult ==
  [NetworkPrice |-> 0, OCRPrice |-> 0, NetworkSuccess |-> FALSE, OCRSuccess |-> FALSE,
   NetworkSource |-> "", NetworkConfidence |-> 0, OCRConfidence |-> 0,
   PricesMatch |-> FALSE, FinalPrice |-> 0, Method |-> ""]

PriceDataOfOriginalPriceOnly(price, source, method, confidence) ==
  [err |-> FALSE, CurrentPrice |-> 0, Source |-> source,
   ExtractionMethod |-> method, Confidence |-> confidence]

PriceDataOfSwappedLabels(price, source, method, confidence) ==
  [err |-> FALSE, CurrentPrice |-> price, Source |-> method,
   ExtractionMethod |-> source, Confidence |-> confidence]

PriceDataOf(price, source, method, confidence) ==
  [err |-> FALSE, CurrentPrice |-> price, Source |-> source,
   ExtractionMethod |-> method, Confidence |-> confidence]

NoPriceData ==
  [err |-> FALSE, CurrentPrice |-> 0, Source |-> "", ExtractionMethod |-> "",
   Confidence |-> 0]

BothFailed ==
  [err |-> TRUE, CurrentPrice |-> 0, Source |-> "", ExtractionMethod |-> "failed",
   Confidence |-> 0]

determineFinalResult(m, url) ==
  LET isAmazon == isAmazonDomain(url) IN
  IF isAmazon /\ m.NetworkSuccess /\ m.NetworkConfidence > 50
  THEN PriceDataOf(m.NetworkPrice, "network_amazon", "network_primary_amazon",
                   m.NetworkConfidence)
  ELSE IF isAmazon /\ ~m.NetworkSuccess /\ m.OCRSuccess
  THEN PriceDataOf(m.OCRPrice, "yolo_ocr_amazon_fallback", "ocr_fallback_amazon",
                   m.OCRConfidence)
  ELSE IF m.OCRSuccess /\ m.OCRConfidence > 70
  THEN PriceDataOf(m.OCRPrice, "yolo_ocr", "yolo_ocr_primary", m.OCRConfidence)
  ELSE IF m.NetworkSuccess /\ m.OCRSuccess /\ m.PricesMatch
  THEN IF isAmazon
       THEN PriceDataOf(m.NetworkPrice, "network_amazon_hybrid",
                        "hybrid_match_network_priority_amazon", m.NetworkConfidence)
       ELSE PriceDataOf(m.OCRPrice, "yolo_ocr_hybrid", "hybrid_match_yolo_priority",
                        m.OCRConfidence)
  ELSE IF ~m.NetworkSuccess /\ m.OCRSuccess
  THEN PriceDataOf(m.OCRPrice, "ocr", "ocr_fallback", m.OCRConfidence)
  ELSE IF m.NetworkSuccess /\ ~m.OCRSuccess
  THEN PriceDataOf(m.NetworkPrice, m.NetworkSource, "network_fallback",
                   m.NetworkConfidence)
  ELSE IF m.NetworkSuccess /\ m.OCRSuccess /\ ~m.PricesMatch
  THEN IF isAmazon
       THEN IF m.OCRConfidence > m.NetworkConfidence + 15
            THEN PriceDataOf(m.OCRPrice, "yolo_ocr_amazon",
                             "yolo_ocr_priority_amazon_high_confidence", m.OCRConfidence)
            ELSE PriceDataOf(m.NetworkPrice, "network_amazon",
                             "network_priority_amazon_default", m.NetworkConfidence)
       ELSE IF m.OCRConfidence > m.NetworkConfidence + 5
            THEN PriceDataOf(m.OCRPrice, "yolo_ocr", "yolo_ocr_priority_confidence",
                             m.OCRConfidence)
            ELSE IF m.NetworkConfidence > m.OCRConfidence + 10
            THEN PriceDataOf(m.NetworkPrice, m.NetworkSource,
                             "network_priority_confidence", m.NetworkConfidence)
            ELSE PriceDataOf(m.OCRPrice, "yolo_ocr", "yolo_ocr_priority_default",
                             m.OCRConfidence)
  ELSE BothFailed

----------------------------------------------------------------------------
(* extractAndMatchPrices as the calling goroutine and the two goroutines   *)
(* it starts.  ocrPrice, ocrErr, ocrConfidence, networkPriceData and       *)
(* networkErr are locals captured by the goroutines and shared without     *)
(* synchronisation: each write and each read is a step of its own.         *)

StartedTogetherWithVision == FALSE

(* The network goroutine is started after the select on ocrDone. *)
NetworkStartedAfterVisionWait == TRUE

VisionTimeoutLeavesErr == "nil"

(* What the timeout case of each select stores in the error local. *)
VisionTimeoutError == "timeout"

NetworkTimeoutError == "timeout"

(* What a single-method procedure returns when it fails. *)
ScrapeError ==
  [err |-> TRUE, CurrentPrice |-> 0, Source |-> "", ExtractionMethod |-> "",
   Confidence |-> 0]

(* The procedure ScrapePriceWithHybridMethod runs for the arbitration's URL. *)
ArbMode == DispatchMode(scrapingPreferences, preferences, world.url, TargetID)

(* PriceScraper.ScrapePrice, run when the preferred method is "network":   *)
(* the network requests first, extractFromHTML when they give no price.    *)
ScrapePrice ==
  /\ pcMain = "idle"
  /\ ArbMode = "network"
  /\ pcMain' = "returned"
  /\ final' = IF world.network.kind = "data" /\ world.network.price > 0
              THEN PriceDataOf(world.network.price, "", "", world.network.confidence)
              ELSE IF world.html > 0
              THEN PriceDataOf(world.html, "html", "", 0)
              ELSE ScrapeError
  /\ UNCHANGED <<pcOCR, pcNet, ocr, net, world, result, selected>>
  /\ UNCHANGED <<targetVars, prefVars, feedbackVars, ocrVars, scrapeVars, taskVars>>

(* HybridPriceScraper.scrapeWithOCRMethod, run when the preferred method   *)
(* is "ocr".                                                               *)
scrapeWithOCRMethod ==
  /\ pcMain = "idle"
  /\ ArbMode = "ocr"
  /\ pcMain' = "returned"
  /\ final' = IF world.vision.kind = "price"
              THEN PriceDataOf(world.vision.price, "enhanced_ocr", "yolo_ocr",
                               world.vision.confidence)
              ELSE ScrapeError
  /\ UNCHANGED <<pcOCR, pcNet, ocr, net, world, result, selected>>
  /\ UNCHANGED <<targetVars, prefVars, feedbackVars, ocrVars, scrapeVars, taskVars>>

(* performHybridScraping, reached when no preferred method is used or the  *)
(* preferred method is neither "network" nor "ocr".                        *)
StartVision ==
  /\ pcMain = "idle"
  /\ ArbMode = "hybrid"
  /\ pcMain' = "wait_ocr"
  /\ pcOCR' = "running"
  /\ pcNet' = IF NetworkStartedAfterVisionWait THEN pcNet ELSE "running"
  /\ UNCHANGED <<ocr, net, world, result, final, selected>>
  /\ UNCHANGED <<targetVars, prefVars, feedbackVars, ocrVars, scrapeVars, taskVars>>

(* The goroutine's first write: ocrPrice (0 on a failure). *)
VisionWritePrice ==
  /\ pcOCR = "running"
  /\ pcOCR' = "wrote_price"
  /\ ocr' = [ocr EXCEPT !.ocrPrice =
               IF world.vision.kind = "price" THEN world.vision.price ELSE 0]
  /\ UNCHANGED <<pcMain, pcNet, net, world, result, final, selected>>
  /\ UNCHANGED <<targetVars, prefVars, feedbackVars, ocrVars, scrapeVars, taskVars>>

(* Its second write, ocrConfidence on success and ocrErr on a failure      *)
(* (nil where the service answered without an error), and the close of     *)
(* ocrDone.                                                                *)
VisionWriteRest ==
  /\ pcOCR = "wrote_price"
  /\ pcOCR' = "closed"
  /\ ocr' = CASE world.vision.kind = "price" ->
                   [ocr EXCEPT !.ocrConfidence = world.vision.confidence]
              [] world.vision.kind = "screenshot_error" ->
                   [ocr EXCEPT !.ocrErr = "screenshot"]
              [] world.vision.kind = "http_error" -> [ocr EXCEPT !.ocrErr = "http"]
              [] OTHER -> [ocr EXCEPT !.ocrErr = "nil"]
  /\ UNCHANGED <<pcMain, pcNet, net, world, result, final, selected>>
  /\ UNCHANGED <<targetVars, prefVars, feedbackVars, ocrVars, scrapeVars, taskVars>>

(* select: case <-ocrDone *)
VisionDone ==
  /\ pcMain = "wait_ocr"
  /\ pcOCR = "closed"
  /\ pcMain' = "read_ocrErr"
  /\ selected' = [selected EXCEPT !.ocr = "done"]
  /\ UNCHANGED <<pcOCR, pcNet, ocr, net, world, result, final>>
  /\ UNCHANGED <<targetVars, prefVars, feedbackVars, ocrVars, scrapeVars, taskVars>>

(* select: case <-time.After(30 * time.Second), first write *)
VisionTimeout ==
  /\ pcMain = "wait_ocr"
  /\ pcMain' = "timeout_ocrErr"
  /\ selected' = [selected EXCEPT !.ocr = "timeout"]
  /\ ocr' = [ocr EXCEPT !.ocrPrice = 0]
  /\ UNCHANGED <<pcOCR, pcNet, net, world, result, final>>
  /\ UNCHANGED <<targetVars, prefVars, feedbackVars, ocrVars, scrapeVars, taskVars>>

VisionTimeoutSetsErr ==
  /\ pcMain = "timeout_ocrErr"
  /\ pcMain' = "read_ocrErr"
  /\ ocr' = [ocr EXCEPT !.ocrErr = VisionTimeoutError]
  /\ UNCHANGED <<pcOCR, pcNet, net, world, result, final, selected>>
  /\ UNCHANGED <<targetVars, prefVars, feedbackVars, ocrVars, scrapeVars, taskVars>>

(* if ocrErr == nil && ocrPrice > 0: the first operand *)
ReadOcrErr ==
  /\ pcMain = "read_ocrErr"
  /\ pcMain' = IF ocr.ocrErr = "nil" THEN "read_ocrPrice" ELSE "start_net"
  /\ UNCHANGED <<pcOCR, pcNet, ocr, net, world, result, final, selected>>
  /\ UNCHANGED <<targetVars, prefVars, feedbackVars, ocrVars, scrapeVars, taskVars>>

(* the second operand, and the branch that fills the vision fields *)
ReadOcrPrice ==
  /\ pcMain = "read_ocrPrice"
  /\ pcMain' = "start_net"
  /\ IF ocr.ocrPrice > 0
     THEN /\ ocr' = [ocr EXCEPT !.ocrPrice = ParsePriceOfSprintf(ocr.ocrPrice)]
          /\ result' = [result EXCEPT !.OCRPrice = ParsePriceOfSprintf(ocr.ocrPrice),
                                      !.OCRSuccess = TRUE,
                                      !.OCRConfidence = ocr.ocrConfidence]
     ELSE UNCHANGED <<ocr, result>>
  /\ UNCHANGED <<pcOCR, pcNet, net, world, final, selected>>
  /\ UNCHANGED <<targetVars, prefVars, feedbackVars, ocrVars, scrapeVars, taskVars>>

StartNetwork ==
  /\ pcMain = "start_net"
  /\ pcMain' = "wait_net"
  /\ pcNet' = IF pcNet = "idle" THEN "running" ELSE pcNet
  /\ UNCHANGED <<pcOCR, ocr, net, world, result, final, selected>>
  /\ UNCHANGED <<targetVars, prefVars, feedbackVars, ocrVars, scrapeVars, taskVars>>

(* networkPriceData, networkErr = ExtractFromNetworkRequests(page): the    *)
(* two locals are assigned from left to right.                             *)
NetworkWriteData ==
  /\ pcNet = "running"
  /\ pcNet' = "wrote_data"
  /\ net' = [net EXCEPT !.networkPriceData =
               IF world.network.kind = "data" THEN world.network ELSE NilPriceData]
  /\ UNCHANGED <<pcMain, pcOCR, ocr, world, result, final, selected>>
  /\ UNCHANGED <<targetVars, prefVars, feedbackVars, ocrVars, scrapeVars, taskVars>>

NetworkWriteErr ==
  /\ pcNet = "wrote_data"
  /\ pcNet' = "closed"
  /\ net' = [net EXCEPT !.networkErr =
               IF world.network.kind = "data" THEN "nil" ELSE "error"]
  /\ UNCHANGED <<pcMain, pcOCR, ocr, world, result, final, selected>>
  /\ UNCHANGED <<targetVars, prefVars, feedbackVars, ocrVars, scrapeVars, taskVars>>

(* select: case <-networkDone *)
NetworkDone ==
  /\ pcMain = "wait_net"
  /\ pcNet = "closed"
  /\ pcMain' = "read_networkErr"
  /\ selected' = [selected EXCEPT !.net = "done"]
  /\ UNCHANGED <<pcOCR, pcNet, ocr, net, world, result, final>>
  /\ UNCHANGED <<targetVars, prefVars, feedbackVars, ocrVars, scrapeVars, taskVars>>

(* select: case <-time.After(20 * time.Second), first write *)
NetworkTimeout ==
  /\ pcMain = "wait_net"
  /\ pcMain' = "timeout_networkErr"
  /\ selected' = [selected EXCEPT !.net = "timeout"]
  /\ net' = [net EXCEPT !.networkPriceData = NilPriceData]
  /\ UNCHANGED <<pcOCR, pcNet, ocr, world, result, final>>
  /\ UNCHANGED <<targetVars, prefVars, feedbackVars, ocrVars, scrapeVars, taskVars>>

NetworkTimeoutSetsErr ==
  /\ pcMain = "timeout_networkErr"
  /\ pcMain' = "read_networkErr"
  /\ net' = [net EXCEPT !.networkErr = NetworkTimeoutError]
  /\ UNCHANGED <<pcOCR, pcNet, ocr, world, result, final, selected>>
  /\ UNCHANGED <<targetVars, prefVars, feedbackVars, ocrVars, scrapeVars, taskVars>>

(* if networkErr == nil && networkPriceData != nil && ...: first operand *)
ReadNetworkErr ==
  /\ pcMain = "read_networkErr"
  /\ pcMain' = IF net.networkErr = "nil" THEN "read_networkPriceData" ELSE "match"
  /\ UNCHANGED <<pcOCR, pcNet, ocr, net, world, result, final, selected>>
  /\ UNCHANGED <<targetVars, prefVars, feedbackVars, ocrVars, scrapeVars, taskVars>>

(* the other operands, and the branch that fills the network fields *)
ReadNetworkPriceData ==
  /\ pcMain = "read_networkPriceData"
  /\ pcMain' = "match"
  /\ IF net.networkPriceData # NilPriceData /\ net.networkPriceData.price > 0
     THEN result' = [result EXCEPT
                       !.NetworkPrice = net.networkPriceData.price,
                       !.NetworkSuccess = TRUE,
                       !.NetworkSource = "",
                       !.NetworkConfidence =
                         IF net.networkPriceData.confidence = 0
                         THEN 80 ELSE net.networkPriceData.confidence]
     ELSE UNCHANGED result
  /\ UNCHANGED <<pcOCR, pcNet, ocr, net, world, final, selected>>
  /\ UNCHANGED <<targetVars, prefVars, feedbackVars, ocrVars, scrapeVars, taskVars>>

(* the comparison of the two prices, and the return *)
MatchPrices ==
  /\ pcMain = "match"
  /\ pcMain' = "determine"
  /\ result' = IF result.NetworkSuccess /\ result.OCRSuccess
               THEN [result EXCEPT !.PricesMatch =
                       pricesMatch(result.NetworkPrice, result.OCRPrice)]
               ELSE result
  /\ UNCHANGED <<pcOCR, pcNet, ocr, net, world, final, selected>>
  /\ UNCHANGED <<targetVars, prefVars, feedbackVars, ocrVars, scrapeVars, taskVars>>

DetermineFinalResultWithoutDomain ==
  /\ pcMain = "determine"
  /\ pcMain' = "returned"
  /\ final' = determineFinalResult(result, <<>>)
  /\ result' = [result EXCEPT
                  !.FinalPrice = determineFinalResult(result, <<>>).CurrentPrice,
                  !.Method = determineFinalResult(result, <<>>).ExtractionMethod]
  /\ UNCHANGED <<pcOCR, pcNet, ocr, net, world, selected>>
  /\ UNCHANGED <<targetVars, prefVars, feedbackVars, ocrVars, scrapeVars, taskVars>>

(* performHybridScraping's call of determineFinalResult *)
DetermineFinalResult ==
  /\ pcMain = "determine"
  /\ pcMain' = "returned"
  /\ final' = determineFinalResult(result, world.url)
  /\ result' = [result EXCEPT
                  !.FinalPrice = determineFinalResult(result, world.url).CurrentPrice,
                  !.Method = determineFinalResult(result, world.url).ExtractionMethod]
  /\ UNCHANGED <<pcOCR, pcNet, ocr, net, world, selected>>
  /\ UNCHANGED <<targetVars, prefVars, feedbackVars, ocrVars, scrapeVars, taskVars>>

(* 1.0 - percentageDiff / 20.0, kept within [0, 1], in hundredths rounded  *)
(* down.                                                                   *)
calculateMatchConfidence(price1, price2) ==
  IF price1 <= 0 \/ price2 <= 0 THEN 0
  ELSE LET diff == IF price1 > price2 THEN price1 - price2 ELSE price2 - price1
           confidence == (100 * (price1 + price2) - 1000 * diff) \div (price1 + price2)
       IN Greatest(0, Least(confidence, 100))

(* The rest of a PriceCheckResponse beside its PrimaryPrice: the price of  *)
(* AlternativePrice (0 where the response has none) and the two flags.     *)
SingleResult == [AlternativePrice |-> 0, NeedsFeedback |-> FALSE, HasAlternative |-> FALSE]

(* A response that never offers an alternative. *)
DualResponseAlwaysSingle(m) ==
  IF m.NetworkSuccess
  THEN PriceDataOf(m.NetworkPrice, "network", "network", m.NetworkConfidence) @@ SingleResult
  ELSE IF m.OCRSuccess
  THEN PriceDataOf(m.OCRPrice, "yolo_ocr", "yolo_ocr", m.OCRConfidence) @@ SingleResult
  ELSE ScrapeError @@ SingleResult

(* The response ScrapePriceWithDualResults builds from the PriceMatchResult, *)
(* or the error when both methods failed.                                  *)
DualResponse(m) ==
  IF m.NetworkSuccess /\ m.OCRSuccess
  THEN IF m.PricesMatch
       THEN PriceDataOf(m.FinalPrice, m.Method, m.Method,
                        calculateMatchConfidence(m.NetworkPrice, m.OCRPrice))
              @@ SingleResult
       ELSE PriceDataOf(m.NetworkPrice, "network", "network", m.NetworkConfidence)
              @@ [AlternativePrice |-> m.OCRPrice, NeedsFeedback |-> TRUE,
                  HasAlternative |-> TRUE]
  ELSE IF m.NetworkSuccess
  THEN PriceDataOf(m.NetworkPrice, "network", "network", m.NetworkConfidence) @@ SingleResult
  ELSE IF m.OCRSuccess
  THEN PriceDataOf(m.OCRPrice, "yolo_ocr", "yolo_ocr", m.OCRConfidence) @@ SingleResult
  ELSE ScrapeError @@ SingleResult

(* HybridPriceScraper.ScrapePriceWithDualResults, the other caller of      *)
(* extractAndMatchPrices, from the return of that call on: final is the    *)
(* response (its PrimaryPrice, the alternative and the flags), or the      *)
(* error when both methods failed.  The PriceMatchResult comes straight    *)
(* from extractAndMatchPrices, which sets neither FinalPrice nor Method.   *)
ScrapePriceWithDualResults ==
  /\ pcMain = "determine"
  /\ pcMain' = "responded"
  /\ final' = DualResponse(result)
  /\ UNCHANGED <<pcOCR, pcNet, ocr, net, world, result, selected>>
  /\ UNCHANGED <<targetVars, prefVars, feedbackVars, ocrVars, scrapeVars, taskVars>>

(* The rest of a manual check that ran the full arbitration:               *)
(* performHybridScraping hands back determineFinalResult's error, or       *)
(* reports the success to the preference repository and hands back the     *)
(* price; CheckPriceNow then marks the failure, or stores the price and    *)
(* the history row.                                                        *)
CheckPriceNowAfterArbitration ==
  /\ pcMain = "returned"
  /\ pcMain' = "checked"
  /\ ~final.err => HistoryHasRoom
  /\ scrapingPreferences' = PreferencesAfterScrape(scrapingPreferences, "hybrid", ~final.err)
  /\ IF final.err
     THEN /\ trackedURL' = MarkPriceCheckFailed(trackedURL)
          /\ lastCheck' = Check("manual", "failed", "hybrid", 0, trackedURL.CurrentPrice,
                                FALSE, FALSE, now + GetRetryDelay(trackedURL.RetryCount))
          /\ UNCHANGED priceHistory
     ELSE /\ trackedURL' =
               UpdateURLPrice(MarkPriceCheckSuccess(trackedURL), final.CurrentPrice)
          /\ priceHistory' =
               IF CheckPriceNowWritesHistory(trackedURL, final.CurrentPrice)
               THEN AddPriceHistory(priceHistory, final.CurrentPrice)
               ELSE priceHistory
          /\ lastCheck' = Check("manual", "ok", "hybrid", final.CurrentPrice,
                                trackedURL.CurrentPrice,
                                CheckPriceNowWritesHistory(trackedURL, final.CurrentPrice),
                                CheckPriceNowChecksAlerts(trackedURL, final.CurrentPrice),
                                NULL)
  /\ UNCHANGED <<now, preferences, initialScrape>>
  /\ UNCHANGED <<pcOCR, pcNet, ocr, net, world, result, final, selected>>
  /\ UNCHANGED <<feedbackVars, ocrVars, scrapeVars, taskVars>>

----------------------------------------------------------------------------
(* scraper.EnhancedOCRExtractor.  Expansion factors are counted in tenths. *)
(* An OCRAttempt is a record of Strategy, ExpansionFactor, Price,          *)
(* Confidence and Success; a failed attempt has Price and Confidence 0.    *)

getExpansionFactors(yoloConfidence) ==
  IF yoloConfidence > 80 THEN <<10, 15, 20>>
  ELSE IF yoloConfidence > 60 THEN <<15, 20, 25>>
  ELSE <<20, 25, 30, 35>>

(* fmt.Sprintf("expansion_%.1fx", expansionFactor) *)
ExpansionStrategy(expansionFactor) ==
  CASE expansionFactor = 10 -> "expansion_1.0x"
    [] expansionFactor = 15 -> "expansion_1.5x"
    [] expansionFactor = 20 -> "expansion_2.0x"
    [] expansionFactor = 25 -> "expansion_2.5x"
    [] expansionFactor = 30 -> "expansion_3.0x"
    [] expansionFactor = 35 -> "expansion_3.5x"

preprocessingStrategies == <<"default", "enhanced", "aggressive", "conservative">>

(* fmt.Sprintf("preprocessing_%s", strategy) *)
PreprocessingStrategy(strategy) ==
  CASE strategy = "default" -> "preprocessing_default"
    [] strategy = "enhanced" -> "preprocessing_enhanced"
    [] strategy = "aggressive" -> "preprocessing_aggressive"
    [] strategy = "conservative" -> "preprocessing_conservative"

(* strings.Contains(attempt.Strategy, "full_image"): of the strategy names *)
(* above and "full_image", only the last contains it.                      *)
IsFullImageStrategy(strategy) == strategy = "full_image"

(* What the OCR service answers to one request: an error or a response     *)
(* without success, or a price with the recognizer's confidence.           *)
OCRAttemptOf(strategy, expansionFactor, answer) ==
  IF answer.Success
  THEN [Strategy |-> strategy, ExpansionFactor |-> expansionFactor,
        Price |-> answer.Price, Confidence |-> answer.Confidence, Success |-> TRUE]
  ELSE [Strategy |-> strategy, ExpansionFactor |-> expansionFactor,
        Price |-> 0, Confidence |-> 0, Success |-> FALSE]

extractWithExpansion(answer, expansionFactor) ==
  OCRAttemptOf(ExpansionStrategy(expansionFactor), expansionFactor, answer)

(* extractWithPreprocessing always expands the box by 2.0. *)
extractWithPreprocessing(answer, strategy) ==
  OCRAttemptOf(PreprocessingStrategy(strategy), 20, answer)

extractFromFullImage(answer) == OCRAttemptOf("full_image", 0, answer)

EarlySuccess(attempt) == attempt.Success /\ attempt.Confidence > 80 /\ attempt.Price > 0

(* The loop over an expansion list that tries every factor, with no break. *)
RECURSIVE ExpansionAttemptsWithoutBreak(_, _, _)
ExpansionAttemptsWithoutBreak(answers, factors, i) ==
  IF i > Len(factors) THEN <<>>
  ELSE <<extractWithExpansion(answers[i], factors[i])>>
         \o ExpansionAttemptsWithoutBreak(answers, factors, i + 1)

(* The loop over the expansion factors from the i-th on, with its break    *)
(* after an early success.                                                 *)
RECURSIVE ExpansionAttempts(_, _, _)
ExpansionAttempts(answers, factors, i) ==
  IF i > Len(factors) THEN <<>>
  ELSE LET attempt == extractWithExpansion(answers[i], factors[i]) IN
       IF EarlySuccess(attempt) THEN <<attempt>>
       ELSE <<attempt>> \o ExpansionAttempts(answers, factors, i + 1)

(* The loop over the four preprocessing strategies. *)
PreprocessingAttempts(answers) ==
  [i \in 1..Len(preprocessingStrategies) |->
     extractWithPreprocessing(answers[preprocessingStrategies[i]],
                              preprocessingStrategies[i])]

hasSuccessfulBboxResults(attempts) ==
  \E i \in 1..Len(attempts) :
    /\ attempts[i].Success
    /\ attempts[i].Price > 0
    /\ ~IsFullImageStrategy(attempts[i].Strategy)

(* score := Confidence, times 1.2 for a region-scoped attempt, times 1.1   *)
(* for an expansion factor within [1.5, 2.5]; kept as an integer, in       *)
(* ten-thousandths.                                                        *)
OCRScore(attempt) ==
  attempt.Confidence
    * (IF ~IsFullImageStrategy(attempt.Strategy) THEN 12 ELSE 10)
    * (IF attempt.ExpansionFactor >= 15 /\ attempt.ExpansionFactor <= 25 THEN 11 ELSE 10)

NoSuccessfulAttempts ==
  [Price |-> 0, Confidence |-> 0, Strategy |-> "no_successful_attempts"]

(* The loop of selectBestOCRResult from the i-th attempt on, with the best *)
(* attempt and score so far (best is 0 while no attempt has been taken).   *)
RECURSIVE SelectFrom(_, _, _, _)
SelectFrom(attempts, i, best, bestScore) ==
  IF i > Len(attempts) THEN [best |-> best, bestScore |-> bestScore]
  ELSE IF ~attempts[i].Success \/ attempts[i].Price <= 0
       THEN SelectFrom(attempts, i + 1, best, bestScore)
       ELSE IF OCRScore(attempts[i]) > bestScore
            THEN SelectFrom(attempts, i + 1, i, OCRScore(attempts[i]))
            ELSE SelectFrom(attempts, i + 1, best, bestScore)

selectBestOCRResult(attempts) ==
  LET sel == SelectFrom(attempts, 1, 0, 0) IN
  IF sel.bestScore = 0 THEN NoSuccessfulAttempts
  ELSE [Price |-> attempts[sel.best].Price, Confidence |-> attempts[sel.best].Confidence,
        Strategy |-> attempts[sel.best].Strategy]

(* All attempts of extractPriceWithComprehensiveOCR for one region: the    *)
(* expansions, the preprocessing strategies, and the full image when no    *)
(* region-scoped attempt of this region succeeded.  "region" holds the     *)
(* service's answers for the requests of the region, "full" its answer for *)
(* the full image.                                                         *)
ComprehensiveAttempts(region, full) ==
  LET bbox == ExpansionAttempts(region.expansion, getExpansionFactors(region.yolo), 1)
                \o PreprocessingAttempts(region.preprocessing)
  IN IF ~hasSuccessfulBboxResults(bbox) THEN bbox \o <<extractFromFullImage(full)>>
     ELSE bbox

extractPriceWithComprehensiveOCR(region, full) ==
  selectBestOCRResult(ComprehensiveAttempts(region, full))
    @@ [AllAttempts |-> ComprehensiveAttempts(region, full)]

----------------------------------------------------------------------------
(* scraper.PriceScraper: the choice among the price candidates of a page.  *)
(* A candidate is a record of Price (whole dollars), Selector and Context; *)
(* the context is given by what calculateMatchScore finds in the           *)
(* candidate's text: nameScore, the sum of its terms that compare the text *)
(* with the product name; positives and negatives, how many of the         *)
(* positive and negative indicators occur; priceCount, the currency signs; *)
(* addToCart, unrelatedWords, related, negativeContext, historical and     *)
(* buyIndicator, the remaining tests.  Scores are whole points.            *)

priceScraperLuxuryKeywords ==
  {
    <<"c","h","l","o","e">>,
    <<"l","o","u","i","s"," ","v","u","i","t","t","o","n">>,
    <<"g","u","c","c","i">>,
    <<"h","e","r","m","e","s">>,
    <<"c","h","a","n","e","l">>,
    <<"p","r","a","d","a">>,
    <<"f","e","n","d","i">>,
    <<"b","a","l","e","n","c","i","a","g","a">>,
    <<"d","i","o","r">>,
    <<"c","e","l","i","n","e">>,
    <<"g","i","v","e","n","c","h","y">>,
    <<"s","a","i","n","t"," ","l","a","u","r","e","n","t">>,
    <<"v","a","l","e","n","t","i","n","o">>,
    <<"b","o","t","t","e","g","a">>,
    <<"m","o","y","n","a","t">>,
    <<"g","o","y","a","r","d">>,
    <<"d","e","l","v","a","u","x">>,
    <<"m","a","n","s","u","r"," ","g","a","v","r","i","e","l">>,
    <<"s","t","r","a","t","h","b","e","r","r","y">>,
    <<"a","s","p","i","n","a","l">>,
    <<"m","u","l","b","e","r","r","y">>,
    <<"l","e","a","t","h","e","r">>,
    <<"p","r","e","m","i","u","m">>,
    <<"l","u","x","u","r","y">>,
    <<"d","e","s","i","g","n","e","r">>,
    <<"h","a","n","d","b","a","g">>,
    <<"b","a","g">>,
    <<"p","u","r","s","e">>,
    <<"t","o","t","e">>
  }

(* PriceScraper.isLuxuryProduct, which lowers the name before matching. *)
PriceScraperIsLuxuryProduct(productName) ==
  \E kw \in priceScraperLuxuryKeywords : Contains(ToLower(productName), kw)

specificSelectors ==
  [s \in {"[data-price]", "[data-current-price]", ".product-price", ".price", "span", "div"} |->
     CASE s = "[data-price]" -> 20
       [] s = "[data-current-price]" -> 20
       [] s = ".product-price" -> 15
       [] s = ".price" -> 10
       [] s = "span" -> 1
       [] s = "div" -> 1]

calculateMatchScore(candidate, productName) ==
  LET c == candidate.Context IN
    c.nameScore
    + 5 * c.positives
    - 15 * c.negatives
    - (IF c.priceCount > 3 THEN 50 ELSE 0)
    - (IF c.addToCart /\ c.priceCount > 2 THEN 30 ELSE 0)
    - (IF c.unrelatedWords > 5 THEN 15 ELSE 0)
    - (IF productName # <<>> /\ c.related THEN 20 ELSE 0)
    + (IF candidate.Selector \in DOMAIN specificSelectors
       THEN specificSelectors[candidate.Selector] ELSE 0)
    + (IF candidate.Price >= 1 /\ candidate.Price <= 1000000 THEN 5 ELSE 0)
    - (IF c.negativeContext THEN 30 ELSE 0)
    - (IF c.historical THEN 100 ELSE 0)
    + (IF c.buyIndicator THEN 20 ELSE 0)
    + (IF c.priceCount <= 2 THEN 25 ELSE 0)

(* sort.Float64s, by insertion. *)
RECURSIVE InsertSorted(_, _)
InsertSorted(sorted, x) ==
  IF sorted = <<>> THEN <<x>>
  ELSE IF x <= Head(sorted) THEN <<x>> \o sorted
       ELSE <<Head(sorted)>> \o InsertSorted(Tail(sorted), x)

RECURSIVE SortFloat64s(_)
SortFloat64s(prices) ==
  IF prices = <<>> THEN <<>>
  ELSE InsertSorted(SortFloat64s(Tail(prices)), Head(prices))

(* prices[len(prices)/2] of the sorted prices (indices from 0 in the code). *)
MedianPrice(candidates) ==
  SortFloat64s([i \in 1..Len(candidates) |-> candidates[i].Price])[(Len(candidates) \div 2) + 1]

(* The three tests of filterValidPrices' loop: a candidate is dropped when *)
(* one of them holds.                                                      *)
TooLow(candidate, medianPrice) == medianPrice > 100 /\ 10 * candidate.Price < medianPrice

TooHighWheneverMedianOverThreshold(candidate, medianPrice) ==
  medianPrice > 100 /\ candidate.Price > medianPrice * 10

TooHigh(candidate, medianPrice) == medianPrice > 0 /\ candidate.Price > medianPrice * 10

TooLowForLuxury(candidate, productName) ==
  PriceScraperIsLuxuryProduct(productName) /\ candidate.Price < 50

filterValidPrices(candidates, productName) ==
  IF candidates = <<>> THEN candidates
  ELSE SelectSeq(candidates,
                 LAMBDA c : /\ ~TooLow(c, MedianPrice(candidates))
                            /\ ~TooHigh(c, MedianPrice(candidates))
                            /\ ~TooLowForLuxury(c, productName))

NilCandidate == [nil |-> TRUE]

(* The scoring loop of findBestPriceMatch from the i-th valid candidate    *)
(* on; best is 0 while bestCandidate is nil.                               *)
RECURSIVE BestFrom(_, _, _, _, _)
BestFrom(validCandidates, productName, i, best, bestScore) ==
  IF i > Len(validCandidates) THEN best
  ELSE IF calculateMatchScore(validCandidates[i], productName) > bestScore
       THEN BestFrom(validCandidates, productName, i + 1, i,
                     calculateMatchScore(validCandidates[i], productName))
       ELSE BestFrom(validCandidates, productName, i + 1, best, bestScore)

(* The candidates the scoring loop ranges over. *)
ValidCandidates(candidates, productName) ==
  IF filterValidPrices(candidates, productName) = <<>> THEN candidates
  ELSE filterValidPrices(candidates, productName)

findBestPriceMatch(candidates, productName) ==
  IF Len(candidates) = 0 THEN NilCandidate
  ELSE IF Len(candidates) = 1
       THEN [nil |-> FALSE, candidate |-> candidates[1], index |-> 1]
       ELSE LET valid == ValidCandidates(candidates, productName)
                best == BestFrom(valid, productName, 1, 0, 0)
            IN IF best = 0 THEN NilCandidate
               ELSE [nil |-> FALSE, candidate |-> valid[best], index |-> best]

----------------------------------------------------------------------------
(* LocaleParser.  A text is a sequence of characters; a value is a whole   *)
(* number of cents.                                                        *)

DigitChars == <<"0", "1", "2", "3", "4", "5", "6", "7", "8", "9">>

IsDigit(c) == \E d \in 1..10 : DigitChars[d] = c

DigitValue(c) == (CHOOSE d \in 1..10 : DigitChars[d] = c) - 1

CurrencySymbols == {"$", "£", "€"}

(* The decimal digits of a natural number. *)
RECURSIVE DigitsOf(_)
DigitsOf(n) ==
  IF n < 10 THEN <<DigitChars[n + 1]>>
  ELSE DigitsOf(n \div 10) \o <<DigitChars[(n % 10) + 1]>>

(* The digits with a separator before every group of three from the right. *)
RECURSIVE GroupThousands(_, _)
GroupThousands(digits, separator) ==
  IF Len(digits) <= 3 THEN digits
  ELSE GroupThousands(SubSeq(digits, 1, Len(digits) - 3), separator)
         \o <<separator>> \o SubSeq(digits, Len(digits) - 2, Len(digits))

TwoDecimals(value) == <<DigitChars[((value % 100) \div 10) + 1], DigitChars[(value % 10) + 1]>>

(* The formats a price is written in. *)
PriceFormats == {"us_uk", "european_dot", "european_space", "bare", "currency_only"}

FormatPrice(value, format) ==
  CASE format = "us_uk" ->
         <<"$">> \o GroupThousands(DigitsOf(value \div 100), ",") \o <<".">> \o TwoDecimals(value)
    [] format = "european_dot" ->
         <<"€">> \o GroupThousands(DigitsOf(value \div 100), ".") \o <<",">> \o TwoDecimals(value)
    [] format = "european_space" ->
         <<"€">> \o GroupThousands(DigitsOf(value \div 100), " ") \o <<",">> \o TwoDecimals(value)
    [] format = "bare" -> DigitsOf(value \div 100) \o <<".">> \o TwoDecimals(value)
    [] format = "currency_only" ->
         <<"$">> \o DigitsOf(value \div 100) \o <<".">> \o TwoDecimals(value)

(* How many digits stand at position i and after it, counted up to max. *)
RECURSIVE DigitRun(_, _, _)
DigitRun(text, i, max) ==
  IF max = 0 \/ i > Len(text) \/ ~IsDigit(text[i]) THEN 0
  ELSE 1 + DigitRun(text, i + 1, max - 1)

(* The position after the groups (?:<separator>[0-9]{3})* that start at i. *)
RECURSIVE GroupsEnd(_, _, _)
GroupsEnd(text, i, separators) ==
  IF i <= Len(text) /\ text[i] \in separators /\ DigitRun(text, i + 1, 3) = 3
  THEN GroupsEnd(text, i + 4, separators)
  ELSE i

(* The position after the optional (?:<decimal>[0-9]{2})? at i. *)
DecimalsEnd(text, i, decimals) ==
  IF i <= Len(text) /\ text[i] \in decimals /\ DigitRun(text, i + 1, 2) = 2
  THEN i + 3
  ELSE i

(* The position of the first digit of the text, 0 when it has none.  The   *)
(* leftmost match of a pattern whose optional prefix holds no digit has    *)
(* its number start there.                                                 *)
FirstDigit(text) ==
  IF \E i \in 1..Len(text) : IsDigit(text[i])
  THEN CHOOSE i \in 1..Len(text) :
         IsDigit(text[i]) /\ \A j \in 1..(i - 1) : ~IsDigit(text[j])
  ELSE 0

(* The position after \s* from i. *)
RECURSIVE SkipSpaces(_, _)
SkipSpaces(text, i) ==
  IF i <= Len(text) /\ text[i] = " " THEN SkipSpaces(text, i + 1) ELSE i

(* The leftmost currency symbol that is followed, after \s*, by a digit;   *)
(* 0 when there is none.                                                   *)
FirstSymbolBeforeDigit(text) ==
  LET starts == {i \in 1..Len(text) :
                   /\ text[i] \in CurrencySymbols
                   /\ DigitRun(text, SkipSpaces(text, i + 1), 1) = 1}
  IN IF starts = {} THEN 0
     ELSE CHOOSE i \in starts : \A j \in starts : i <= j

NoMatch == [matched |-> FALSE, numberStr |-> <<>>]

NumberMatch(text, first, last) == [matched |-> TRUE, numberStr |-> SubSeq(text, first, last)]

(* matches[2] of FindStringSubmatch for each of the four patterns. *)
MatchPattern(name, text) ==
  LET s == FirstDigit(text) IN
  CASE name = "us_uk" ->
         IF s = 0 THEN NoMatch
         ELSE NumberMatch(text, s,
                DecimalsEnd(text, GroupsEnd(text, s + DigitRun(text, s, 3), {","}), {"."}) - 1)
    [] name = "european" ->
         IF s = 0 THEN NoMatch
         ELSE NumberMatch(text, s,
                DecimalsEnd(text, GroupsEnd(text, s + DigitRun(text, s, 3), {".", " "}), {","}) - 1)
    [] name = "currency_only" ->
         LET c == FirstSymbolBeforeDigit(text)
             d == SkipSpaces(text, c + 1)
         IN IF c = 0 THEN NoMatch
            ELSE NumberMatch(text, d,
                   DecimalsEnd(text, d + DigitRun(text, d, Len(text)), {"."}) - 1)
    [] name = "simple" ->
         IF s = 0 THEN NoMatch
         ELSE NumberMatch(text, s,
                DecimalsEnd(text, s + DigitRun(text, s, Len(text)), {".", ","}) - 1)

(* strings.ReplaceAll(s, old, "") and strings.ReplaceAll(s, old, new) for  *)
(* single characters.                                                      *)
RemoveChar(s, old) == SelectSeq(s, LAMBDA c : c # old)

ReplaceChar(s, old, new) == [i \in 1..Len(s) |-> IF s[i] = old THEN new ELSE s[i]]

HasChar(s, c) == \E i \in 1..Len(s) : s[i] = c

cleanNumberString(numberStr, locale) ==
  CASE locale = "us_uk" -> RemoveChar(numberStr, ",")
    [] locale = "european" -> ReplaceChar(RemoveChar(numberStr, "."), ",", ".")
    [] locale = "currency_only" -> numberStr
    [] locale = "simple" ->
         IF HasChar(numberStr, ",") /\ ~HasChar(numberStr, ".")
         THEN ReplaceChar(numberStr, ",", ".")
         ELSE numberStr

(* The value of a run of digits. *)
RECURSIVE NatOfDigits(_)
NatOfDigits(digits) ==
  IF digits = <<>> THEN 0
  ELSE 10 * NatOfDigits(SubSeq(digits, 1, Len(digits) - 1)) + DigitValue(digits[Len(digits)])

(* strconv.ParseFloat on a cleaned number: digits, or digits, a dot and   *)
(* two digits; anything else is an error.  The value is given in cents.    *)
ParseFloat(s) ==
  IF s # <<>> /\ \A i \in 1..Len(s) : IsDigit(s[i])
  THEN [err |-> FALSE, value |-> 100 * NatOfDigits(s)]
  ELSE IF /\ Len(s) >= 4 /\ s[Len(s) - 2] = "."
          /\ \A i \in (1..Len(s)) \ {Len(s) - 2} : IsDigit(s[i])
       THEN [err |-> FALSE,
             value |-> 100 * NatOfDigits(SubSeq(s, 1, Len(s) - 3))
                         + NatOfDigits(SubSeq(s, Len(s) - 1, Len(s)))]
       ELSE [err |-> TRUE, value |-> 0]

patterns == <<"us_uk", "european", "currency_only", "simple">>

(* The loop of ParsePrice over the patterns from the i-th on: the first    *)
(* pattern that matches and whose cleaned number parses gives the value.   *)
RECURSIVE ParsePrice(_, _)
ParsePrice(text, i) ==
  IF i > Len(patterns)
  THEN [err |-> TRUE, value |-> 0, pattern |-> "none"]
  ELSE LET m == MatchPattern(patterns[i], text)
           parsed == ParseFloat(cleanNumberString(m.numberStr, patterns[i]))
       IN IF m.matched /\ ~parsed.err
          THEN [err |-> FALSE, value |-> parsed.value, pattern |-> patterns[i]]
          ELSE ParsePrice(text, i + 1)

----------------------------------------------------------------------------
(* scheduler.TaskManager.  taskManager holds the counter workers, the      *)
(* channel taskQueue, the status of every task, the position of the        *)
(* processTasks goroutine (dispatcher), of every worker goroutine and the  *)
(* set of re-queue goroutines.  tm.workers is read and written without     *)
(* the mutex by processTasks and by every worker: workers++ and workers--  *)
(* are a read and a later write, and the goroutines interleave between.    *)
(* Each read returns the value of the latest write to the word, as on the  *)
(* cache-coherent machines the program is built for.                      *)

MaxTasks == 3

maxWorkers == 2

QueueCapacity == 100

TaskIDs == 1..MaxTasks

TerminalStatuses == {"completed", "failed"}

(* What dualCheckFunc and the validation after it make of a task. *)
CheckResults == {"completed", "failed"}

NewTaskManager ==
  [pc |-> "running", workers |-> 0, taskQueue |-> <<>>,
   status |-> [t \in TaskIDs |-> "none"],
   dispatcher |-> [pc |-> "select", task |-> 0, loaded |-> 0],
   worker |-> [t \in TaskIDs |-> [pc |-> "none", loaded |-> 0]],
   requeue |-> {}]

(* The worker goroutines that have been started and have not returned. *)
RunningWorkers(tm) == {t \in TaskIDs : tm.worker[t].pc \notin {"none", "exited"}}

(* select { case tm.taskQueue <- task: ... default: task.Fail(...) } *)
Enqueue(tm, t) ==
  IF Len(tm.taskQueue) < QueueCapacity
  THEN [tm EXCEPT !.taskQueue = Append(@, t)]
  ELSE [tm EXCEPT !.status[t] = "failed"]

SubmitTask ==
  /\ taskManager.pc = "running"
  /\ \E t \in TaskIDs :
       /\ taskManager.status[t] = "none"
       /\ \A u \in TaskIDs : u < t => taskManager.status[u] # "none"
       /\ taskManager' = Enqueue([taskManager EXCEPT !.status[t] = "queued"], t)
  /\ UNCHANGED <<targetVars, prefVars, arbVars, feedbackVars, ocrVars, scrapeVars>>

(* case task := <-tm.taskQueue, and the test tm.workers < tm.maxWorkers:   *)
(* at the maximum the task goes to a re-queue goroutine.                   *)
ReceiveTask ==
  /\ taskManager.pc = "running"
  /\ taskManager.dispatcher.pc = "select"
  /\ taskManager.taskQueue # <<>>
  /\ LET t == Head(taskManager.taskQueue) IN
     taskManager' =
       IF taskManager.workers < maxWorkers
       THEN [taskManager EXCEPT !.taskQueue = Tail(@),
                                !.dispatcher = [pc |-> "admitted", task |-> t, loaded |-> 0]]
       ELSE [taskManager EXCEPT !.taskQueue = Tail(@), !.requeue = @ \cup {t}]
  /\ UNCHANGED <<targetVars, prefVars, arbVars, feedbackVars, ocrVars, scrapeVars>>

(* tm.workers++: the read. *)
IncrementLoad ==
  /\ taskManager.dispatcher.pc = "admitted"
  /\ taskManager' = [taskManager EXCEPT !.dispatcher.pc = "loaded",
                                        !.dispatcher.loaded = taskManager.workers]
  /\ UNCHANGED <<targetVars, prefVars, arbVars, feedbackVars, ocrVars, scrapeVars>>

(* tm.workers++: the write, and go tm.worker(task). *)
IncrementStore ==
  /\ taskManager.dispatcher.pc = "loaded"
  /\ taskManager' =
       [taskManager EXCEPT
          !.workers = taskManager.dispatcher.loaded + 1,
          !.worker[taskManager.dispatcher.task] = [pc |-> "started", loaded |-> 0],
          !.dispatcher = [pc |-> "select", task |-> 0, loaded |-> 0]]
  /\ UNCHANGED <<targetVars, prefVars, arbVars, feedbackVars, ocrVars, scrapeVars>>

(* The re-queue goroutine after its second of sleep. *)
RequeueTask ==
  /\ \E t \in taskManager.requeue :
       taskManager' = Enqueue([taskManager EXCEPT !.requeue = @ \ {t}], t)
  /\ UNCHANGED <<targetVars, prefVars, arbVars, feedbackVars, ocrVars, scrapeVars>>

(* worker: task.Start() and the progress updates. *)
WorkerStart ==
  /\ \E t \in TaskIDs :
       /\ taskManager.worker[t].pc = "started"
       /\ taskManager' = [taskManager EXCEPT !.worker[t].pc = "checking",
                                             !.status[t] = "processing"]
  /\ UNCHANGED <<targetVars, prefVars, arbVars, feedbackVars, ocrVars, scrapeVars>>

(* worker: dualCheckFunc returns; task.Fail or                             *)
(* task.CompleteWithDualResponse, then the deferred function is due.       *)
WorkerCheck ==
  /\ \E t \in TaskIDs, r \in CheckResults :
       /\ taskManager.worker[t].pc = "checking"
       /\ taskManager' = [taskManager EXCEPT !.worker[t].pc = "deferred",
                                             !.status[t] = r]
  /\ UNCHANGED <<targetVars, prefVars, arbVars, feedbackVars, ocrVars, scrapeVars>>

(* The deferred tm.workers--: the read. *)
DecrementLoad ==
  /\ \E t \in TaskIDs :
       /\ taskManager.worker[t].pc = "deferred"
       /\ taskManager' = [taskManager EXCEPT !.worker[t].pc = "loaded",
                                             !.worker[t].loaded = taskManager.workers]
  /\ UNCHANGED <<targetVars, prefVars, arbVars, feedbackVars, ocrVars, scrapeVars>>

(* A worker that returns without giving its place back. *)
WorkerReturnsWithoutDecrement(tm, t) ==
  [tm EXCEPT !.worker[t] = [pc |-> "exited", loaded |-> 0]]

(* The deferred tm.workers--: the write, and the worker returns. *)
DecrementStore(tm, t) ==
  [tm EXCEPT !.workers = tm.worker[t].loaded - 1,
             !.worker[t] = [pc |-> "exited", loaded |-> 0]]

WorkerExit ==
  /\ \E t \in TaskIDs :
       /\ taskManager.worker[t].pc = "loaded"
       /\ taskManager' = DecrementStore(taskManager, t)
  /\ UNCHANGED <<targetVars, prefVars, arbVars, feedbackVars, ocrVars, scrapeVars>>

----------------------------------------------------------------------------
(* The clock *)

AdvanceTime ==
  /\ now < MaxNow
  /\ now' = now + 1
  /\ UNCHANGED <<trackedURL, priceHistory, lastCheck, initialScrape>>
  /\ UNCHANGED prefVars
  /\ UNCHANGED <<arbVars, feedbackVars, ocrVars, scrapeVars, taskVars>>

----------------------------------------------------------------------------
(* The state after AddURLToTrack has inserted the target's row: no price,  *)
(* retry_count 0, no retry times, no history, no preference.               *)

NewTrackedURL(name) ==
  [Name |-> name, CurrentPrice |-> NULL, LastFailedAt |-> NULL, RetryCount |-> 0,
   NextRetryAt |-> NULL]

NoPreferences == [k \in {} |-> "hybrid"]

(* No feedback request is being handled. *)
NoFeedbackHandlers == [h \in {} |-> "idle"]

(* No extraction has been started. *)
NoExtraction == [pc |-> "idle"]

(* No candidate selection, no parse and no task manager in this run. *)
NoPriceMatch == [pc |-> "idle"]

NoLocaleParse == [pc |-> "idle"]

NoTaskManager == [pc |-> "idle"]

(* No arbitration in progress. *)
ArbIdle ==
  /\ pcMain = "idle"
  /\ pcOCR = "idle"
  /\ pcNet = "idle"
  /\ ocr = [ocrPrice |-> 0, ocrErr |-> "nil", ocrConfidence |-> 0]
  /\ net = [networkPriceData |-> NilPriceData, networkErr |-> "nil"]
  /\ result = EmptyResult
  /\ final = NoPriceData
  /\ selected = [ocr |-> "none", net |-> "none"]

Init ==
  /\ now = 0
  /\ \E name \in ProductNames : trackedURL = NewTrackedURL(name)
  /\ priceHistory = <<>>
  /\ scrapingPreferences = {}
  /\ preferences = NoPreferences
  /\ lastCheck = NoCheck
  /\ initialScrape = "pending"
  /\ feedbackHandlers = NoFeedbackHandlers
  /\ extraction = NoExtraction
  /\ priceMatch = NoPriceMatch
  /\ localeParse = NoLocaleParse
  /\ taskManager = NoTaskManager
  /\ ArbIdle
  /\ world = CHOOSE w \in Worlds : TRUE

Next ==
  \/ InitialPriceScrape
  \/ CheckPriceNow
  \/ PerformPriceCheck
  \/ CheckURLPrice
  \/ ProcessRetries
  \/ AdvanceTime

Spec == Init /\ [][Next]_vars

(* The check paths with the user's choices, at one instant. *)
NextPref ==
  \/ InitialPriceScrape
  \/ CheckPriceNow
  \/ PerformPriceCheck
  \/ CheckURLPrice
  \/ ProcessRetries
  \/ HandleUserChoice

(* determineFinalResult on its own, for every PriceMatchResult that        *)
(* extractAndMatchPrices can hand it when the extractors report the        *)
(* prices and confidences below: a failed method leaves its fields zero, a *)
(* network confidence of 0 has been replaced by 0.8, and PricesMatch is    *)
(* pricesMatch of the two prices when both succeeded.                      *)
MatchPrices3 == {40, 100, 102}

MatchConfidences == {40, 52, 60, 72, 90}

MethodOutcomes ==
  {[ok |-> FALSE, price |-> 0, confidence |-> 0]}
    \cup {[ok |-> TRUE, price |-> p, confidence |-> c] :
            p \in MatchPrices3, c \in MatchConfidences}

MatchResultOf(n, o) ==
  [NetworkPrice |-> n.price, OCRPrice |-> o.price, NetworkSuccess |-> n.ok,
   OCRSuccess |-> o.ok, NetworkSource |-> "", NetworkConfidence |-> n.confidence,
   OCRConfidence |-> o.confidence,
   PricesMatch |-> n.ok /\ o.ok /\ pricesMatch(n.price, o.price),
   FinalPrice |-> 0, Method |-> ""]

(* The row SavePreference leaves after a user choice of the method. *)
PreferenceRow(urlID, method) ==
  [url_id |-> urlID, method |-> method, confidence |-> UserChoiceConfidence,
   success_rate |-> MaxSuccessRate]

(* The target before the check: newly added, or checked before with a     *)
(* price, a history row and a preference row that leads the dispatch to    *)
(* the full arbitration.                                                   *)
HybridPreferenceRow == PreferenceRow(TargetID, "hybrid")

InitTargetBeforeCheck ==
  /\ \/ /\ trackedURL = NewTrackedURL(<<"D","e","s","k"," ","L","a","m","p">>)
        /\ priceHistory = <<>>
     \/ /\ trackedURL =
             UpdateURLPrice(NewTrackedURL(<<"D","e","s","k"," ","L","a","m","p">>), 100)
        /\ priceHistory = <<100>>
  /\ scrapingPreferences \in {{}, {HybridPreferenceRow}}

InitFinal ==
  /\ now = 0
  /\ InitTargetBeforeCheck
  /\ preferences = NoPreferences
  /\ lastCheck = NoCheck
  /\ initialScrape = "pending"
  /\ feedbackHandlers = NoFeedbackHandlers
  /\ extraction = NoExtraction
  /\ priceMatch = NoPriceMatch
  /\ localeParse = NoLocaleParse
  /\ taskManager = NoTaskManager
  /\ pcMain = "determine"
  /\ pcOCR = "closed"
  /\ pcNet = "closed"
  /\ ocr = [ocrPrice |-> 0, ocrErr |-> "nil", ocrConfidence |-> 0]
  /\ net = [networkPriceData |-> NilPriceData, networkErr |-> "nil"]
  /\ final = NoPriceData
  /\ selected = [ocr |-> "done", net |-> "done"]
  /\ \E u \in ArbURLs, n \in MethodOutcomes, o \in MethodOutcomes :
       /\ result = MatchResultOf(n, o)
       /\ world = [url |-> u,
                   vision |-> IF o.ok THEN Answer("price", o.price, o.confidence)
                              ELSE Answer("no_price", 0, 0),
                   network |-> IF n.ok THEN Answer("data", n.price, n.confidence)
                               ELSE Answer("error", 0, 0)]

NextFinal ==
  \/ DetermineFinalResult
  \/ CheckPriceNowAfterArbitration

SpecFinal == InitFinal /\ [][NextFinal]_vars

(* pricesMatch on its own: extractAndMatchPrices has both prices, around   *)
(* $40, $100 and $200, and is about to compare them.                       *)
MatchPriceInputs == (95..105) \cup {38, 39, 40, 41, 42} \cup {194, 197, 200, 203, 206}

InitMatch ==
  /\ now = 0
  /\ trackedURL = NewTrackedURL(<<"D","e","s","k"," ","L","a","m","p">>)
  /\ priceHistory = <<>>
  /\ scrapingPreferences = {}
  /\ preferences = NoPreferences
  /\ lastCheck = NoCheck
  /\ initialScrape = "pending"
  /\ feedbackHandlers = NoFeedbackHandlers
  /\ extraction = NoExtraction
  /\ priceMatch = NoPriceMatch
  /\ localeParse = NoLocaleParse
  /\ taskManager = NoTaskManager
  /\ pcMain = "match"
  /\ pcOCR = "closed"
  /\ pcNet = "closed"
  /\ ocr = [ocrPrice |-> 0, ocrErr |-> "nil", ocrConfidence |-> 0]
  /\ net = [networkPriceData |-> NilPriceData, networkErr |-> "nil"]
  /\ final = NoPriceData
  /\ selected = [ocr |-> "done", net |-> "done"]
  /\ world = CHOOSE w \in Worlds : TRUE
  /\ \E price1 \in MatchPriceInputs, price2 \in MatchPriceInputs :
       result = [EmptyResult EXCEPT !.NetworkPrice = price1, !.NetworkSuccess = TRUE,
                                    !.NetworkConfidence = 80, !.OCRPrice = price2,
                                    !.OCRSuccess = TRUE, !.OCRConfidence = 60]

NextMatch == MatchPrices

SpecMatch == InitMatch /\ [][NextMatch]_vars

(* One full arbitration, for each answer of the page and the services. *)
(* The preferences user choices can have left: none, a row of the target   *)
(* with each method the table allows, or a row of another target together  *)
(* with a memory entry under the arbitration's URL.                        *)
InitArbPreferences ==
  \/ /\ scrapingPreferences \in
          {{}} \cup {{PreferenceRow(TargetID, m)} : m \in AllowedMethods}
     /\ preferences = NoPreferences
  \/ /\ scrapingPreferences = {PreferenceRow(OtherID, "network")}
     /\ preferences = SetPreferenceMap(NoPreferences, world.url, "network")

InitArb ==
  /\ now = 0
  /\ trackedURL = NewTrackedURL(<<"D","e","s","k"," ","L","a","m","p">>)
  /\ priceHistory = <<>>
  /\ world \in Worlds
  /\ InitArbPreferences
  /\ lastCheck = NoCheck
  /\ initialScrape = "pending"
  /\ feedbackHandlers = NoFeedbackHandlers
  /\ extraction = NoExtraction
  /\ priceMatch = NoPriceMatch
  /\ localeParse = NoLocaleParse
  /\ taskManager = NoTaskManager
  /\ ArbIdle

NextArb ==
  \/ ScrapePrice
  \/ scrapeWithOCRMethod
  \/ StartVision
  \/ VisionWritePrice
  \/ VisionWriteRest
  \/ VisionDone
  \/ VisionTimeout
  \/ VisionTimeoutSetsErr
  \/ ReadOcrErr
  \/ ReadOcrPrice
  \/ StartNetwork
  \/ NetworkWriteData
  \/ NetworkWriteErr
  \/ NetworkDone
  \/ NetworkTimeout
  \/ NetworkTimeoutSetsErr
  \/ ReadNetworkErr
  \/ ReadNetworkPriceData
  \/ MatchPrices
  \/ DetermineFinalResult
  \/ ScrapePriceWithDualResults

SpecArb == InitArb /\ [][NextArb]_vars

InitPref == Init /\ trackedURL.Name = <<"D","e","s","k"," ","L","a","m","p">>

SpecPref == InitPref /\ [][NextPref]_vars

(* What writes scraping_preferences: a check (through                     *)
(* performHybridScraping), the user choices and the feedback submissions.  *)
NextFeedback ==
  \/ CheckPriceNow
  \/ HandleUserChoice
  \/ SubmitPriceFeedback

SpecFeedback == InitPref /\ [][NextFeedback]_vars

(* The plausibility gate on its own: a manual check of a target of each    *)
(* category, without a price or with a price of $100, has extracted a      *)
(* price at, just inside or just beyond a bound of a category's window,    *)
(* and CheckPriceNow is about to store it and decide on the alerts.        *)
GatePrices == {19, 20, 29, 30, 39, 40, 49, 50, 100, 200, 201, 250, 251, 300, 301}

InitGate ==
  /\ now = 0
  /\ \E name \in ProductNames, oldPrice \in {NULL, 100} :
       /\ trackedURL = UpdateURLPrice(NewTrackedURL(name), oldPrice)
       /\ priceHistory = IF oldPrice = NULL THEN <<>> ELSE <<oldPrice>>
  /\ scrapingPreferences = {}
  /\ preferences = NoPreferences
  /\ lastCheck = NoCheck
  /\ initialScrape = "done"
  /\ feedbackHandlers = NoFeedbackHandlers
  /\ extraction = NoExtraction
  /\ priceMatch = NoPriceMatch
  /\ localeParse = NoLocaleParse
  /\ taskManager = NoTaskManager
  /\ pcMain = "returned"
  /\ pcOCR = "closed"
  /\ pcNet = "closed"
  /\ ocr = [ocrPrice |-> 0, ocrErr |-> "nil", ocrConfidence |-> 0]
  /\ net = [networkPriceData |-> NilPriceData, networkErr |-> "nil"]
  /\ selected = [ocr |-> "done", net |-> "done"]
  /\ world = CHOOSE w \in Worlds : TRUE
  /\ \E price \in GatePrices :
       /\ final = PriceDataOf(price, "", "network_fallback", 80)
       /\ result = [EmptyResult EXCEPT !.NetworkPrice = price, !.NetworkSuccess = TRUE,
                                      !.NetworkConfidence = 80, !.FinalPrice = price,
                                      !.Method = "network_fallback"]

NextGate == CheckPriceNowAfterArbitration

SpecGate == InitGate /\ [][NextGate]_vars

(* Two feedback requests arrive together for a target without a row or     *)
(* with the row a user choice left.                                        *)
InitConcurrentFeedback ==
  /\ now = 0
  /\ trackedURL = NewTrackedURL(<<"D","e","s","k"," ","L","a","m","p">>)
  /\ priceHistory = <<>>
  /\ scrapingPreferences \in {{}} \cup {{PreferenceRow(TargetID, m)} : m \in AllowedMethods}
  /\ preferences = NoPreferences
  /\ lastCheck = NoCheck
  /\ initialScrape = "done"
  /\ ArbIdle
  /\ world = CHOOSE w \in Worlds : TRUE
  /\ extraction = NoExtraction
  /\ priceMatch = NoPriceMatch
  /\ localeParse = NoLocaleParse
  /\ taskManager = NoTaskManager
  /\ \E kinds \in [FeedbackRequests -> FeedbackKinds] :
       feedbackHandlers =
         [h \in FeedbackRequests |->
            [pc |-> "received", kind |-> kinds[h], prefs |-> {}, overlapped |-> FALSE]]

NextConcurrentFeedback ==
  \/ ConcurrentGetPreference
  \/ ConcurrentSavePreference

SpecConcurrentFeedback == InitConcurrentFeedback /\ [][NextConcurrentFeedback]_vars

(* One run of ExtractPriceWithYOLO on a screenshot.  What the detector and *)
(* the OCR service answer is fixed by the screenshot: per detected region  *)
(* the detector's confidence and the OCR answers to each expansion and     *)
(* each preprocessing strategy, and one answer for the full image.         *)
OCRFailed == [Success |-> FALSE, Price |-> 0, Confidence |-> 0]

OCRRead(price, confidence) == [Success |-> TRUE, Price |-> price, Confidence |-> confidence]

ExpansionAnswers == {OCRFailed, OCRRead(40, 70), OCRRead(40, 90), OCRRead(0, 90)}

PreprocessingAnswers ==
  {[s \in {"default", "enhanced", "aggressive", "conservative"} |-> OCRFailed],
   [s \in {"default", "enhanced", "aggressive", "conservative"} |->
      IF s = "enhanced" THEN OCRRead(38, 70) ELSE OCRFailed]}

FullImageAnswers == {OCRFailed, OCRRead(45, 60)}

DetectedRegions(yoloConfidence) ==
  {[yolo |-> yoloConfidence, expansion |-> e, preprocessing |-> p] :
     e \in [1..Len(getExpansionFactors(yoloConfidence)) -> ExpansionAnswers],
     p \in PreprocessingAnswers}

Screenshots ==
  {<<>>}
    \cup {<<r>> : r \in DetectedRegions(90) \cup DetectedRegions(70) \cup DetectedRegions(50)}
    \cup {<<r1, r2>> : r1 \in DetectedRegions(90), r2 \in DetectedRegions(70)}

ExtractionStarted(detections, full) ==
  [pc |-> "detecting", detections |-> detections, full |-> full, next |-> 1,
   detectionDetails |-> <<>>, bestPrice |-> 0, bestConfidence |-> 0,
   bestStrategy |-> "", outcome |-> "none", caller |-> "none"]

(* detectPricesWithYOLO and the two early returns of ExtractPriceWithYOLO. *)
DetectPrices ==
  /\ extraction.pc = "detecting"
  /\ \E yoloFails \in BOOLEAN :
       extraction' =
         IF yoloFails THEN [extraction EXCEPT !.pc = "returned", !.outcome = "error"]
         ELSE IF Len(extraction.detections) = 0
              THEN [extraction EXCEPT !.pc = "returned", !.outcome = "no_regions"]
              ELSE [extraction EXCEPT !.pc = "processing"]
  /\ UNCHANGED <<targetVars, prefVars, arbVars, feedbackVars, scrapeVars, taskVars>>

(* One turn of the loop over yoloResult.Detections. *)
ProcessDetection ==
  /\ extraction.pc = "processing"
  /\ extraction.next <= Len(extraction.detections)
  /\ LET detection == extraction.detections[extraction.next]
         ocrResult == extractPriceWithComprehensiveOCR(detection, extraction.full)
         combinedConfidence == (detection.yolo + ocrResult.Confidence) \div 2
         better == combinedConfidence > extraction.bestConfidence /\ ocrResult.Price > 0
     IN extraction' =
          [extraction EXCEPT
             !.next = @ + 1,
             !.detectionDetails =
                Append(@, [YOLOConfidence |-> detection.yolo,
                           OCRPrice |-> ocrResult.Price,
                           OCRConfidence |-> ocrResult.Confidence,
                           OCRStrategy |-> ocrResult.Strategy,
                           AllOCRResults |-> ocrResult.AllAttempts]),
             !.bestPrice = IF better THEN ocrResult.Price ELSE @,
             !.bestConfidence = IF better THEN combinedConfidence ELSE @,
             !.bestStrategy = IF better THEN ocrResult.Strategy ELSE @]
  /\ UNCHANGED <<targetVars, prefVars, arbVars, feedbackVars, scrapeVars, taskVars>>

(* The end of ExtractPriceWithYOLO, after the loop. *)
ReturnExtraction ==
  /\ extraction.pc = "processing"
  /\ extraction.next > Len(extraction.detections)
  /\ extraction' =
       [extraction EXCEPT
          !.pc = "returned",
          !.outcome = IF extraction.bestPrice <= 0 THEN "no_valid_prices" ELSE "success"]
  /\ UNCHANGED <<targetVars, prefVars, arbVars, feedbackVars, scrapeVars, taskVars>>

(* What ExtractPriceWithYOLO returned: the EnhancedOCRResult's fields the   *)
(* callers read.  YOLOConfidence is the first detection's confidence,      *)
(* OCRConfidence the best combined confidence of the loop.                 *)
EnhancedOCRResult ==
  [Success |-> extraction.outcome = "success",
   Price |-> IF extraction.outcome = "success" THEN extraction.bestPrice ELSE 0,
   YOLOConfidence |-> IF extraction.outcome = "success"
                      THEN extraction.detections[1].yolo ELSE 0,
   OCRConfidence |-> IF extraction.outcome = "success"
                     THEN extraction.bestConfidence ELSE 0]

(* The vision goroutine of extractAndMatchPrices taking the extractor's    *)
(* result: ocrPrice and ocrConfidence on success, ocrErr = httpErr         *)
(* otherwise.                                                              *)
ExtractAndMatchTakesResult ==
  /\ extraction.pc = "returned"
  /\ extraction' = [extraction EXCEPT !.pc = "handed", !.caller = "extractAndMatchPrices"]
  /\ ocr' = IF extraction.outcome # "error" /\ EnhancedOCRResult.Success
            THEN [ocrPrice |-> EnhancedOCRResult.Price, ocrErr |-> "nil",
                  ocrConfidence |-> EnhancedOCRResult.OCRConfidence]
            ELSE [ocrPrice |-> 0,
                  ocrErr |-> IF extraction.outcome = "error" THEN "http" ELSE "nil",
                  ocrConfidence |-> 0]
  /\ UNCHANGED <<pcMain, pcOCR, pcNet, net, world, result, final, selected>>
  /\ UNCHANGED <<targetVars, prefVars, feedbackVars, scrapeVars, taskVars>>

(* scrapeWithOCRMethod taking the extractor's result: overallConfidence is *)
(* (YOLOConfidence + OCRConfidence) / 2, here rounded down to a whole      *)
(* hundredth.                                                              *)
ScrapeWithOCRMethodTakesResult ==
  /\ extraction.pc = "returned"
  /\ extraction' = [extraction EXCEPT !.pc = "handed", !.caller = "scrapeWithOCRMethod"]
  /\ final' = IF extraction.outcome = "error" \/ ~EnhancedOCRResult.Success
              THEN ScrapeError
              ELSE PriceDataOf(EnhancedOCRResult.Price, "enhanced_ocr", "yolo_ocr",
                               (EnhancedOCRResult.YOLOConfidence
                                  + EnhancedOCRResult.OCRConfidence) \div 2)
  /\ UNCHANGED <<pcMain, pcOCR, pcNet, ocr, net, world, result, selected>>
  /\ UNCHANGED <<targetVars, prefVars, feedbackVars, scrapeVars, taskVars>>

InitExtraction ==
  /\ now = 0
  /\ trackedURL = NewTrackedURL(<<"D","e","s","k"," ","L","a","m","p">>)
  /\ priceHistory = <<>>
  /\ scrapingPreferences = {}
  /\ preferences = NoPreferences
  /\ lastCheck = NoCheck
  /\ initialScrape = "done"
  /\ ArbIdle
  /\ world = CHOOSE w \in Worlds : TRUE
  /\ feedbackHandlers = NoFeedbackHandlers
  /\ priceMatch = NoPriceMatch
  /\ localeParse = NoLocaleParse
  /\ taskManager = NoTaskManager
  /\ \E detections \in Screenshots, full \in FullImageAnswers :
       extraction = ExtractionStarted(detections, full)

NextExtraction ==
  \/ DetectPrices
  \/ ProcessDetection
  \/ ReturnExtraction
  \/ ExtractAndMatchTakesResult
  \/ ScrapeWithOCRMethodTakesResult

SpecExtraction == InitExtraction /\ [][NextExtraction]_vars

(* findBestPriceMatch on the candidates of one page.  The contexts are     *)
(* three texts that do not mention the product: "add to cart sale $49",    *)
(* "in 2006 selling units priced at $20" and                               *)
(* "related products $5 $6 $7 $8".                                         *)
CartContext ==
  [nameScore |-> 0, positives |-> 2, negatives |-> 0, priceCount |-> 1,
   addToCart |-> TRUE, unrelatedWords |-> 1, related |-> FALSE,
   negativeContext |-> FALSE, historical |-> FALSE, buyIndicator |-> TRUE]

HistoricalContext ==
  [nameScore |-> 0, positives |-> 1, negatives |-> 0, priceCount |-> 1,
   addToCart |-> FALSE, unrelatedWords |-> 4, related |-> FALSE,
   negativeContext |-> TRUE, historical |-> TRUE, buyIndicator |-> FALSE]

RelatedContext ==
  [nameScore |-> 0, positives |-> 0, negatives |-> 1, priceCount |-> 4,
   addToCart |-> FALSE, unrelatedWords |-> 2, related |-> TRUE,
   negativeContext |-> TRUE, historical |-> FALSE, buyIndicator |-> FALSE]

PriceCandidates ==
  {[Price |-> p, Selector |-> s, Context |-> c] :
     p \in {5, 100, 150, 2000},
     s \in {".price", "span"},
     c \in {CartContext, HistoricalContext, RelatedContext}}

CandidateLists ==
  {<<>>} \cup {<<a>> : a \in PriceCandidates}
         \cup {<<a, b>> : a \in PriceCandidates, b \in PriceCandidates}
         \cup {<<a, b, c>> : a \in PriceCandidates, b \in PriceCandidates,
                             c \in PriceCandidates}

ScrapedProductNames ==
  {<<>>, <<"D","e","s","k"," ","L","a","m","p">>,
   <<"L","e","a","t","h","e","r"," ","T","o","t","e">>}

(* The call at ExtractFromNetworkRequests: the pre-filter's answer is kept *)
(* beside the choice.                                                      *)
FindBestPriceMatch ==
  /\ priceMatch.pc = "called"
  /\ priceMatch' =
       [priceMatch EXCEPT
          !.pc = "returned",
          !.filtered = filterValidPrices(priceMatch.candidates, priceMatch.productName),
          !.best = findBestPriceMatch(priceMatch.candidates, priceMatch.productName)]
  /\ UNCHANGED <<localeParse, taskVars>>
  /\ UNCHANGED <<targetVars, prefVars, arbVars, feedbackVars, ocrVars>>

InitPriceMatch ==
  /\ now = 0
  /\ trackedURL = NewTrackedURL(<<"D","e","s","k"," ","L","a","m","p">>)
  /\ priceHistory = <<>>
  /\ scrapingPreferences = {}
  /\ preferences = NoPreferences
  /\ lastCheck = NoCheck
  /\ initialScrape = "done"
  /\ ArbIdle
  /\ world = CHOOSE w \in Worlds : TRUE
  /\ feedbackHandlers = NoFeedbackHandlers
  /\ extraction = NoExtraction
  /\ localeParse = NoLocaleParse
  /\ taskManager = NoTaskManager
  /\ \E candidates \in CandidateLists, productName \in ScrapedProductNames :
       priceMatch = [pc |-> "called", candidates |-> candidates,
                     productName |-> productName, filtered |-> <<>>,
                     best |-> NilCandidate]

NextPriceMatch == FindBestPriceMatch

SpecPriceMatch == InitPriceMatch /\ [][NextPriceMatch]_vars

(* ParsePrice on a price of two decimals written in one of the formats.   *)
CanonicalValues ==
  {5, 50, 99, 100, 999, 1234, 9999, 12345, 99999, 100000, 123456, 999999, 1000000,
   1234567, 123456789}

ParseFormattedPrice ==
  /\ localeParse.pc = "formatted"
  /\ localeParse' = [localeParse EXCEPT !.pc = "parsed",
                                        !.parsed = ParsePrice(localeParse.text, 1)]
  /\ UNCHANGED <<priceMatch, taskVars>>
  /\ UNCHANGED <<targetVars, prefVars, arbVars, feedbackVars, ocrVars>>

InitLocaleParse ==
  /\ now = 0
  /\ trackedURL = NewTrackedURL(<<"D","e","s","k"," ","L","a","m","p">>)
  /\ priceHistory = <<>>
  /\ scrapingPreferences = {}
  /\ preferences = NoPreferences
  /\ lastCheck = NoCheck
  /\ initialScrape = "done"
  /\ ArbIdle
  /\ world = CHOOSE w \in Worlds : TRUE
  /\ feedbackHandlers = NoFeedbackHandlers
  /\ extraction = NoExtraction
  /\ priceMatch = NoPriceMatch
  /\ taskManager = NoTaskManager
  /\ \E value \in CanonicalValues, format \in PriceFormats :
       localeParse = [pc |-> "formatted", value |-> value, format |-> format,
                      text |-> FormatPrice(value, format),
                      parsed |-> [err |-> TRUE, value |-> 0, pattern |-> "none"]]

NextLocaleParse == ParseFormattedPrice

SpecLocaleParse == InitLocaleParse /\ [][NextLocaleParse]_vars

(* A TaskManager that is not stopped, from its construction. *)
InitTaskManager ==
  /\ now = 0
  /\ trackedURL = NewTrackedURL(<<"D","e","s","k"," ","L","a","m","p">>)
  /\ priceHistory = <<>>
  /\ scrapingPreferences = {}
  /\ preferences = NoPreferences
  /\ lastCheck = NoCheck
  /\ initialScrape = "done"
  /\ ArbIdle
  /\ world = CHOOSE w \in Worlds : TRUE
  /\ feedbackHandlers = NoFeedbackHandlers
  /\ extraction = NoExtraction
  /\ priceMatch = NoPriceMatch
  /\ localeParse = NoLocaleParse
  /\ taskManager = NewTaskManager

NextTaskManager ==
  \/ SubmitTask
  \/ ReceiveTask
  \/ IncrementLoad
  \/ IncrementStore
  \/ RequeueTask
  \/ WorkerStart
  \/ WorkerCheck
  \/ DecrementLoad
  \/ WorkerExit

SpecTaskManager == InitTaskManager /\ [][NextTaskManager]_vars

(* Every goroutine that can take a step eventually takes one: the          *)
(* dispatcher, the re-queue goroutines and the workers, whose price check  *)
(* returns.  Nothing obliges a caller to submit a task.                    *)
FairTaskManager ==
  /\ WF_vars(ReceiveTask)
  /\ WF_vars(IncrementLoad)
  /\ WF_vars(IncrementStore)
  /\ WF_vars(RequeueTask)
  /\ WF_vars(WorkerStart)
  /\ WF_vars(WorkerCheck)
  /\ WF_vars(DecrementLoad)
  /\ WF_vars(WorkerExit)

SpecTaskManagerFair == SpecTaskManager /\ FairTaskManager

(* extractPriceWithComprehensiveOCR on one detected region, over a wider   *)
(* range of OCR answers: prices read at confidence 0, 0.7, 0.75 and 0.9,   *)
(* a zero price, and failures.                                             *)
SelectionAnswers ==
  {OCRFailed, OCRRead(40, 70), OCRRead(41, 90), OCRRead(0, 90), OCRRead(42, 0),
   OCRRead(43, 75)}

SelectionRegions ==
  {[yolo |-> y, expansion |-> e, preprocessing |-> p] :
     y \in {90, 50},
     e \in [1..4 -> SelectionAnswers],
     p \in PreprocessingAnswers
            \cup {[s \in {"default", "enhanced", "aggressive", "conservative"} |->
                     IF s = "aggressive" THEN OCRRead(39, 0) ELSE OCRFailed]}}

SelectionFullImageAnswers == FullImageAnswers \cup {OCRRead(46, 0)}

ComprehensiveOCR ==
  /\ extraction.pc = "region"
  /\ extraction' =
       [extraction EXCEPT
          !.pc = "selected",
          !.ocrResult = extractPriceWithComprehensiveOCR(extraction.region, extraction.full)]
  /\ UNCHANGED <<targetVars, prefVars, arbVars, feedbackVars, scrapeVars, taskVars>>

InitSelection ==
  /\ now = 0
  /\ trackedURL = NewTrackedURL(<<"D","e","s","k"," ","L","a","m","p">>)
  /\ priceHistory = <<>>
  /\ scrapingPreferences = {}
  /\ preferences = NoPreferences
  /\ lastCheck = NoCheck
  /\ initialScrape = "done"
  /\ ArbIdle
  /\ world = CHOOSE w \in Worlds : TRUE
  /\ feedbackHandlers = NoFeedbackHandlers
  /\ priceMatch = NoPriceMatch
  /\ localeParse = NoLocaleParse
  /\ taskManager = NoTaskManager
  /\ \E region \in SelectionRegions, full \in SelectionFullImageAnswers :
       extraction = [pc |-> "region", region |-> region, full |-> full,
                     ocrResult |-> NoSuccessfulAttempts @@ [AllAttempts |-> <<>>]]

NextSelection == ComprehensiveOCR

SpecSelection == InitSelection /\ [][NextSelection]_vars

----------------------------------------------------------------------------
(* The check paths, the plausibility gate and the retry schedule           *)

(* The target as it was before the last check. *)
TargetBeforeLastCheck == [trackedURL EXCEPT !.CurrentPrice = lastCheck.priorPrice]

LastCheckImplausible ==
  /\ lastCheck.path \in CheckPaths
  /\ lastCheck.outcome = "ok"
  /\ ~IsPriceChangeRealistic(TargetBeforeLastCheck, lastCheck.price)

(* C1: on every check path, a check whose extraction succeeded with a      *)
(* price that fails the plausibility gate against the previous price       *)
(* appends no price-history row and evaluates no alert.                    *)
C1_ImplausibleNeverRecorded ==
  LastCheckImplausible => (~lastCheck.wroteHistory /\ ~lastCheck.checkedAlerts)

(* C2: after a failed extraction nextRetryAt = lastFailedAt +              *)
(* delay(retryCount), the delay taken from the table 10m, 30m, 1h, 3h, 6h, *)
(* 24h at the retry count the failure found.                               *)
C2_NextRetryFollowsDelayTable ==
  trackedURL.LastFailedAt # NULL =>
    trackedURL.NextRetryAt =
      trackedURL.LastFailedAt + GetRetryDelay(trackedURL.RetryCount - 1)

(* C3: the retry count of the target stays within 0..5. *)
C3_RetryCountWithinFive == trackedURL.RetryCount \in 0..MaxAutoRetries

(* C4: a tick of the retry service that finds the failed target due        *)
(* (retryCount below 5, now past nextRetryAt) re-checks it, and the retry  *)
(* ends by resetting or incrementing the target's retry count.             *)
RetryTick == lastCheck' # lastCheck /\ lastCheck'.path = "retry"

C4_DueTargetIsRetried ==
  [][(RetryTick /\ GetURLsForRetry # {} /\ ShouldRetry(trackedURL)) =>
       (\/ trackedURL'.RetryCount = 0
        \/ trackedURL'.RetryCount = trackedURL.RetryCount + 1)]_vars

(* C5: after an extraction that succeeded, on any check path, the retry    *)
(* count is 0 and lastFailedAt and nextRetryAt are cleared.                *)
C5_SuccessResetsRetryState ==
  (lastCheck.path \in CheckPaths /\ lastCheck.outcome = "ok") =>
    /\ trackedURL.RetryCount = 0
    /\ trackedURL.LastFailedAt = NULL
    /\ trackedURL.NextRetryAt = NULL

(* C6: the retry delay is non-decreasing over retry counts 0..4, and a     *)
(* target whose retry count is 5 or more is neither selected for retry nor *)
(* retried by a tick of the retry service.                                 *)
C6_MonotoneDelayAndStopAtFive ==
  /\ \A n \in 0..4 : GetRetryDelay(n) <= GetRetryDelay(n + 1)
  /\ trackedURL.RetryCount >= MaxAutoRetries =>
       /\ GetURLsForRetry = {}
       /\ ~ShouldRetry(trackedURL)
       /\ lastCheck.path = "retry" => lastCheck.outcome = "none_due"

(* A tick of the retry service found the target past its retry time with   *)
(* five failures behind it, and left it alone.                             *)
C6_Witness ==
  /\ trackedURL.RetryCount >= MaxAutoRetries
  /\ trackedURL.NextRetryAt # NULL
  /\ trackedURL.NextRetryAt < lastCheck.at
  /\ lastCheck.path = "retry"
  /\ lastCheck.outcome = "none_due"

----------------------------------------------------------------------------
(* The paths that extract through ScrapePriceWithHybridMethod. *)
HybridPaths == {"initial", "manual", "task", "retry"}

LastCheckRanSingleMethod ==
  /\ lastCheck.path \in HybridPaths
  /\ lastCheck.outcome \in {"ok", "failed"}
  /\ lastCheck.mode \in {"network", "ocr"}

(* C7: a check runs a single stored method in place of the full            *)
(* arbitration only when the target has a preference row whose success     *)
(* rate is strictly greater than 0.8.                                      *)
C7_SingleMethodOnlyWhenTrusted ==
  LastCheckRanSingleMethod =>
    \E row \in scrapingPreferences :
      row.url_id = TargetID /\ row.success_rate > TrustThreshold

----------------------------------------------------------------------------
C9_TimedOutNetworkIsFailed ==
  (selected.net = "timeout" /\ pcMain \in {"match", "determine", "returned"}) =>
    /\ ~result.NetworkSuccess
    /\ result.NetworkPrice = 0
    /\ pcMain = "returned" =>
         final.ExtractionMethod \in {"yolo_ocr_primary", "ocr_fallback",
                                     "ocr_fallback_amazon", "failed"}

(* C10: when the 30-second wait for the vision extraction expires, the     *)
(* vision branch counts as failed and whatever the abandoned goroutine     *)
(* writes afterwards is not used: no vision success flag, no vision price, *)
(* and an outcome that comes from the network branch or is a failure.      *)
C10_TimedOutVisionIsDiscarded ==
  selected.ocr = "timeout" =>
    /\ ~result.OCRSuccess
    /\ result.OCRPrice = 0
    /\ pcMain = "returned" =>
         final.ExtractionMethod \in {"network_primary_amazon", "network_fallback",
                                     "failed"}

(* The abandoned vision goroutine delivered a price after the timeout, and *)
(* the arbitration returned without it.                                    *)
C10_Witness ==
  /\ selected.ocr = "timeout"
  /\ pcOCR = "closed"
  /\ ocr.ocrPrice > 0
  /\ pcMain = "returned"

----------------------------------------------------------------------------
Returned == pcMain = "returned"

BothSucceeded == result.NetworkSuccess /\ result.OCRSuccess

IsAmazon == isAmazonDomain(world.url)

PickedByConfidence ==
  /\ Returned
  /\ BothSucceeded
  /\ ~result.PricesMatch
  /\ final.ExtractionMethod \notin {"network_primary_amazon", "yolo_ocr_primary"}

VisionLeads ==
  result.OCRConfidence > result.NetworkConfidence + (IF IsAmazon THEN 15 ELSE 5)

NetworkLeads == ~IsAmazon /\ result.NetworkConfidence > result.OCRConfidence + 10

(* Neither confidence exceeds the other by its margin: for an Amazon URL,  *)
(* which has no network margin, the network confidence does not exceed the *)
(* vision confidence at all.                                               *)
NeitherLeads ==
  /\ ~VisionLeads
  /\ IF IsAmazon THEN result.NetworkConfidence <= result.OCRConfidence
     ELSE ~NetworkLeads

ShortCircuitTaken ==
  /\ Returned
  /\ final.ExtractionMethod \in {"network_primary_amazon", "yolo_ocr_primary"}

ExactlyOneSucceeded == result.NetworkSuccess # result.OCRSuccess

(* C14: when exactly one method succeeded, determineFinalResult returns    *)
(* that method's price without error, for every domain and confidence.     *)
C14_SingleSuccessIsReturned ==
  (Returned /\ ExactlyOneSucceeded) =>
    /\ ~final.err
    /\ final.CurrentPrice > 0
    /\ final.CurrentPrice =
         IF result.NetworkSuccess THEN result.NetworkPrice ELSE result.OCRPrice

(* Only the network method succeeded, on an Amazon URL and with a          *)
(* confidence too low for the short-circuit: its price came back through   *)
(* the network fallback.                                                   *)
C14_Witness ==
  /\ Returned
  /\ IsAmazon
  /\ result.NetworkSuccess
  /\ ~result.OCRSuccess
  /\ result.NetworkConfidence <= 50
  /\ final.ExtractionMethod = "network_fallback"
  /\ final.CurrentPrice = result.NetworkPrice

(* C15: a check whose arbitration ended with neither method succeeding    *)
(* gets an error and no price from determineFinalResult, and finishing the *)
(* check leaves the preference rows, the target's current price and the    *)
(* price history as they were.                                             *)
C15_BothFailedLeavesStoresAlone ==
  [][(pcMain = "returned" /\ pcMain' = "checked"
        /\ ~result.NetworkSuccess /\ ~result.OCRSuccess) =>
       /\ final.err
       /\ final.CurrentPrice = 0
       /\ scrapingPreferences' = scrapingPreferences
       /\ trackedURL'.CurrentPrice = trackedURL.CurrentPrice
       /\ priceHistory' = priceHistory]_vars

(* A target with a price of 100, one history row and a preference row was  *)
(* checked, both methods failed, and the check ended as failed.            *)
C15_Witness ==
  /\ pcMain = "checked"
  /\ ~result.NetworkSuccess
  /\ ~result.OCRSuccess
  /\ final.err
  /\ lastCheck.outcome = "failed"
  /\ lastCheck.priorPrice = 100
  /\ trackedURL.CurrentPrice = 100
  /\ priceHistory = <<100>>
  /\ scrapingPreferences = {HybridPreferenceRow}
  /\ trackedURL.RetryCount = 1

(* A method failed when the check ran it and got no price from it.  The    *)
(* single-method procedures run one method; the full arbitration runs      *)
(* both.                                                                   *)
NetworkMethodFailed ==
  \/ ArbMode = "network" /\ final.err
  \/ ArbMode = "hybrid" /\ ~result.NetworkSuccess

VisionMethodFailed ==
  \/ ArbMode = "ocr" /\ final.err
  \/ ArbMode = "hybrid" /\ ~result.OCRSuccess

(* C16: ScrapePriceWithHybridMethod returns an error only if both the      *)
(* network method and the vision method failed.                            *)
C16_ErrorOnlyWhenBothFailed ==
  (Returned /\ final.err) => (NetworkMethodFailed /\ VisionMethodFailed)

(* The full arbitration returns an error exactly when both methods failed. *)
HybridErrorIffBothFailed ==
  (Returned /\ ArbMode = "hybrid") =>
    (final.err <=> (~result.NetworkSuccess /\ ~result.OCRSuccess))

(* C17: on both callers of extractAndMatchPrices, when the two methods     *)
(* succeeded with matching prices, the price handed back (the final price  *)
(* of performHybridScraping, the primary price of                          *)
(* ScrapePriceWithDualResults) is one of the two extracted prices.         *)
C17_MatchReportsAgreedPrice ==
  (pcMain \in {"returned", "responded"} /\ BothSucceeded /\ result.PricesMatch) =>
    /\ ~final.err
    /\ final.CurrentPrice \in {result.NetworkPrice, result.OCRPrice}

(* performHybridScraping alone hands back one of the two prices. *)
HybridMatchReportsAgreedPrice ==
  (Returned /\ BothSucceeded /\ result.PricesMatch) =>
    /\ ~final.err
    /\ final.CurrentPrice \in {result.NetworkPrice, result.OCRPrice}

(* The two prices have been compared. *)
Compared == pcMain = "determine"

(* The absolute difference of the two prices is at most t percent of their *)
(* average.                                                                *)
PercentDiffAtMost(t) ==
  LET a == result.NetworkPrice
      b == result.OCRPrice
  IN 2 * 100 * (IF a > b THEN a - b ELSE b - a) <= t * (a + b)

AverageOf2Times == result.NetworkPrice + result.OCRPrice

(* C18: two positive prices match exactly when their difference is at most *)
(* 5% of the average for an average below $100 and at most 3% for an       *)
(* average of $100 or more, in both argument orders.                       *)
C18_ThreePercentFromHundred ==
  Compared =>
    /\ result.PricesMatch <=>
         IF AverageOf2Times >= 2 * 100 THEN PercentDiffAtMost(3) ELSE PercentDiffAtMost(5)
    /\ pricesMatch(result.OCRPrice, result.NetworkPrice) = result.PricesMatch

(* C18 as the code has it: at most 3% only for an average above $100, at   *)
(* most 5% for an average of $100 or less, in both argument orders.        *)
C18_ThreePercentAboveHundred ==
  Compared =>
    /\ result.PricesMatch <=>
         IF AverageOf2Times > 2 * 100 THEN PercentDiffAtMost(3) ELSE PercentDiffAtMost(5)
    /\ pricesMatch(result.OCRPrice, result.NetworkPrice) = result.PricesMatch

(* $98 and $102, average exactly $100 and 4% apart, were found to match.   *)
C18_Witness ==
  /\ Compared
  /\ result.NetworkPrice = 98
  /\ result.OCRPrice = 102
  /\ result.PricesMatch

SteppedRate(rate, ok) ==
  IF ok THEN Least(rate + SuccessRateStep, MaxSuccessRate)
  ELSE Greatest(rate - SuccessRateStep, 0)

(* A check of the target has just ended with an extraction outcome. *)
CheckEnded ==
  /\ lastCheck' # lastCheck
  /\ lastCheck'.path \in CheckPaths
  /\ lastCheck'.outcome \in {"ok", "failed"}

(* C20: every check outcome moves the success rate of the target's row one *)
(* step, up after a success and down after a failure, and leaves the       *)
(* row's method alone.                                                     *)
C20_EveryOutcomeStepsSuccessRate ==
  [][CheckEnded =>
       \A row \in GetPreference(scrapingPreferences, TargetID) :
         \E after \in GetPreference(scrapingPreferences', TargetID) :
           /\ after.method = row.method
           /\ after.success_rate = SteppedRate(row.success_rate, lastCheck'.outcome = "ok")]_vars

(* A feedback submission of the given branch for the target has just been  *)
(* handled, on a target that had a preference row.                         *)
FeedbackHandled(kind) ==
  /\ lastCheck'.path = "feedback"
  /\ lastCheck'.mode = kind
  /\ lastCheck'.outcome # "panic"
  /\ <<lastCheck, scrapingPreferences>>' # <<lastCheck, scrapingPreferences>>
  /\ GetPreference(scrapingPreferences, TargetID) # {}

(* network <-> vision ("ocr" in the table) *)
ComplementaryMethod(method) ==
  CASE method = "network" -> "ocr"
    [] method = "ocr" -> "network"
    [] OTHER -> method

(* C21: after feedback that confirms the alternative price, the target's   *)
(* row holds the complementary method (network <-> vision) and the         *)
(* previous success rate plus 0.1, at most 1.0.                            *)
C21_AlternativeSwitchesMethod ==
  [][FeedbackHandled("alternative") =>
       \A row \in GetPreference(scrapingPreferences, TargetID) :
         \E after \in GetPreference(scrapingPreferences', TargetID) :
           /\ after.method = ComplementaryMethod(row.method)
           /\ after.success_rate = SteppedRate(row.success_rate, TRUE)]_vars

(* The target's row after the step holds the previous method, and the      *)
(* previous success rate moved one step up (ok) or down.                   *)
RateSteppedMethodKept(ok) ==
  \A row \in GetPreference(scrapingPreferences, TargetID) :
    \E after \in GetPreference(scrapingPreferences', TargetID) :
      /\ after.method = row.method
      /\ after.success_rate = SteppedRate(row.success_rate, ok)

(* C22: after feedback that confirms the primary price the stored success  *)
(* rate is the previous one plus 0.1 (at most 1.0), after feedback that    *)
(* rejects both prices it is the previous one minus 0.1 (at least 0.0);    *)
(* the method is unchanged in both cases.                                  *)
C22_FeedbackStepsStoredRate ==
  [][/\ FeedbackHandled("primary") => RateSteppedMethodKept(TRUE)
     /\ FeedbackHandled("neither") => RateSteppedMethodKept(FALSE)]_vars

(* The part of C22 about the confirmed primary price. *)
PrimaryFeedbackStepsStoredRate ==
  [][FeedbackHandled("primary") => RateSteppedMethodKept(TRUE)]_vars

(* C23: every stored method, in scraping_preferences and in the memory     *)
(* map, is network, ocr (vision) or hybrid, and the dispatch of            *)
(* ScrapePriceWithHybridMethod runs the procedure of that name for a row   *)
(* it trusts.                                                              *)
C23_StoredMethodIsRecognised ==
  /\ \A row \in scrapingPreferences :
       /\ row.method \in {"network", "ocr", "hybrid"}
       /\ row.success_rate > TrustThreshold =>
            DispatchMode({row}, NoPreferences, TargetURL, row.url_id) = row.method
  /\ \A key \in DOMAIN preferences :
       /\ preferences[key] \in {"network", "ocr", "hybrid"}
       /\ DispatchMode({}, preferences, key, TargetID) = preferences[key]

(* The target's row says "network", and a feedback submission that would   *)
(* have stored "yolo_ocr" has just been refused by the table.              *)
C23_Witness ==
  /\ \E row \in GetPreference(scrapingPreferences, TargetID) : row.method = "network"
  /\ lastCheck.path = "feedback"
  /\ lastCheck.mode = "alternative"
  /\ lastCheck.outcome = "failed"

(* Both feedback requests were answered, and one of them read the row      *)
(* while the other had read it and not yet written.                        *)
BothAnsweredInterleaved ==
  /\ \A h \in FeedbackRequests : feedbackHandlers[h].pc = "answered"
  /\ \E h \in FeedbackRequests : feedbackHandlers[h].overlapped

FeedbackIsPositive(h) == feedbackHandlers[h].kind \in {"primary", "alternative"}

(* The rates a serial execution of the two requests, in either order,      *)
(* leaves from the rate both of them read.                                 *)
SerialRates ==
  LET rate0 == (CHOOSE row \in feedbackHandlers["first"].prefs : TRUE).success_rate
  IN {SteppedRate(SteppedRate(rate0, FeedbackIsPositive("first")),
                  FeedbackIsPositive("second")),
      SteppedRate(SteppedRate(rate0, FeedbackIsPositive("second")),
                  FeedbackIsPositive("first"))}

(* C24: after two interleaved adjustments of the target's success rate the *)
(* stored rate reflects both of them.                                      *)
C24_InterleavedAdjustmentsBothCount ==
  BothAnsweredInterleaved =>
    \E row \in GetPreference(scrapingPreferences, TargetID) :
      row.success_rate \in SerialRates

(* C25: once a check of the target has succeeded, the target has a         *)
(* preference row.                                                         *)
C25_SuccessCreatesPreference ==
  (lastCheck.path \in CheckPaths \cup {"initial"} /\ lastCheck.outcome = "ok") =>
    GetPreference(scrapingPreferences, TargetID) # {}

(* A preference row of the target, once there, stays. *)
PreferenceRowStays ==
  [][GetPreference(scrapingPreferences, TargetID) # {} =>
       GetPreference(scrapingPreferences', TargetID) # {}]_vars

(* The window of each category, in percent, by the product name that       *)
(* falls into it.                                                          *)
WindowOfName ==
  (<<"D","e","s","k"," ","L","a","m","p">> :> <<-50, 100>>)
    @@ (<<"G","u","c","c","i"," ","T","o","t","e">> :> <<-80, 200>>)
    @@ (<<"i","P","h","o","n","e"," ","1","5">> :> <<-60, 100>>)
    @@ (<<"D","e","n","i","m"," ","J","a","c","k","e","t">> :> <<-70, 150>>)

(* The change from the prior price to the extracted price of the last      *)
(* check is at least lo percent and at most hi percent.                    *)
ChangeWithin(lo, hi) ==
  /\ 100 * (lastCheck.price - lastCheck.priorPrice) >= lo * lastCheck.priorPrice
  /\ 100 * (lastCheck.price - lastCheck.priorPrice) <= hi * lastCheck.priorPrice

GateDecided == pcMain = "checked" /\ lastCheck.path = "manual" /\ lastCheck.outcome = "ok"

(* C26: the gate accepts the new price exactly when the target had no      *)
(* price before or the change lies within the category's window, the       *)
(* bounds included.                                                        *)
C26_GateAcceptsExactlyWithinWindow ==
  GateDecided =>
    (lastCheck.checkedAlerts <=>
       \/ lastCheck.priorPrice = NULL
       \/ ChangeWithin(WindowOfName[trackedURL.Name][1], WindowOfName[trackedURL.Name][2]))

(* A change of exactly -50% on a product of the default category was       *)
(* accepted.                                                               *)
C26_Witness ==
  /\ GateDecided
  /\ trackedURL.Name = <<"D","e","s","k"," ","L","a","m","p">>
  /\ lastCheck.priorPrice = 100
  /\ lastCheck.price = 50
  /\ lastCheck.checkedAlerts

(* A change of -51% on the same product was rejected. *)
GateRejectsBeyondBound ==
  /\ GateDecided
  /\ trackedURL.Name = <<"D","e","s","k"," ","L","a","m","p">>
  /\ lastCheck.priorPrice = 100
  /\ lastCheck.price = 49
  /\ ~lastCheck.checkedAlerts

Responded == pcMain = "responded" /\ ~final.err

(* C27: the response of ScrapePriceWithDualResults asks for feedback and   *)
(* carries an alternative price exactly when both methods succeeded with   *)
(* prices that do not match, and then the network price and the vision     *)
(* price are its primary and alternative prices.                           *)
C27_FeedbackExactlyOnMismatch ==
  Responded =>
    /\ final.NeedsFeedback <=> (BothSucceeded /\ ~result.PricesMatch)
    /\ final.HasAlternative <=> (BothSucceeded /\ ~result.PricesMatch)
    /\ (BothSucceeded /\ ~result.PricesMatch) =>
         \/ final.CurrentPrice = result.NetworkPrice /\ final.AlternativePrice = result.OCRPrice
         \/ final.CurrentPrice = result.OCRPrice /\ final.AlternativePrice = result.NetworkPrice

(* The network found $102 and the vision method $40: the response asks for *)
(* feedback and carries both.                                              *)
C27_Witness ==
  /\ Responded
  /\ result.NetworkPrice = 102
  /\ result.OCRPrice = 40
  /\ final.NeedsFeedback
  /\ final.HasAlternative
  /\ final.CurrentPrice = 102
  /\ final.AlternativePrice = 40

----------------------------------------------------------------------------
(* Claims on the region-scoped OCR attempts                                *)

IsExpansionAttempt(attempt) ==
  attempt.Strategy \in {ExpansionStrategy(f) : f \in {10, 15, 20, 25, 30, 35}}

(* How many attempts of a region's list were expansion attempts. *)
ExpansionCount(attempts) ==
  Cardinality({j \in 1..Len(attempts) : IsExpansionAttempt(attempts[j])})

(* The attempts of one processed region follow the order: the first k      *)
(* factors of the region's expansion list, in the list's order, none of    *)
(* the first k-1 an early success, and the k-th an early success unless    *)
(* the list is exhausted; then the four preprocessing strategies.          *)
RegionAttemptsInOrder(detail) ==
  LET attempts == detail.AllOCRResults
      factors == getExpansionFactors(detail.YOLOConfidence)
      k == ExpansionCount(attempts)
  IN /\ k >= 1 /\ k <= Len(factors)
     /\ Len(attempts) >= k + 4
     /\ \A j \in 1..k :
          /\ IsExpansionAttempt(attempts[j])
          /\ attempts[j].ExpansionFactor = factors[j]
          /\ attempts[j].Strategy = ExpansionStrategy(factors[j])
     /\ \A j \in 1..(k - 1) :
          ~(attempts[j].Success /\ attempts[j].Confidence > 80 /\ attempts[j].Price > 0)
     /\ \/ k = Len(factors)
        \/ attempts[k].Success /\ attempts[k].Confidence > 80 /\ attempts[k].Price > 0
     /\ \A s \in 1..4 :
          attempts[k + s].Strategy = PreprocessingStrategy(preprocessingStrategies[s])

(* C28: within one detected region the expansion attempts are made in the  *)
(* order of the expansion list and stop at the first attempt that succeeds *)
(* with confidence above 0.8 and a positive price, and all four            *)
(* preprocessing attempts of the region are made whether or not the        *)
(* expansions stopped early.                                               *)
C28_ExpansionsStopEarlyPreprocessingAlwaysRuns ==
  extraction.pc \in {"processing", "returned"} =>
    \A d \in 1..Len(extraction.detectionDetails) :
      RegionAttemptsInOrder(extraction.detectionDetails[d])

(* A region whose second expansion was an early success: the third was not *)
(* requested and the four preprocessing attempts were still made.          *)
C28_Witness ==
  /\ extraction.pc = "returned"
  /\ \E d \in 1..Len(extraction.detectionDetails) :
       LET attempts == extraction.detectionDetails[d].AllOCRResults IN
       /\ ExpansionCount(attempts) = 2
       /\ ~attempts[1].Success
       /\ attempts[2].Success /\ attempts[2].Confidence > 80 /\ attempts[2].Price > 0
       /\ Len(attempts) = 6
       /\ attempts[6].Strategy = "preprocessing_conservative"

(* The attempts of every region processed so far, one after the other. *)
RECURSIVE AttemptsOfDetails(_)
AttemptsOfDetails(details) ==
  IF details = <<>> THEN <<>>
  ELSE Head(details).AllOCRResults \o AttemptsOfDetails(Tail(details))

FullImageAttemptCount ==
  LET all == AttemptsOfDetails(extraction.detectionDetails) IN
  Cardinality({j \in 1..Len(all) : all[j].Strategy = "full_image"})

SomeRegionScopedAttemptSucceeded ==
  LET all == AttemptsOfDetails(extraction.detectionDetails) IN
  \E j \in 1..Len(all) :
    all[j].Strategy # "full_image" /\ all[j].Success /\ all[j].Price > 0

FullImageOnlyWhenNoRegionSucceeded ==
  extraction.pc = "returned" =>
    (FullImageAttemptCount > 0 => ~SomeRegionScopedAttemptSucceeded)

FullImageAtMostOnce ==
  extraction.pc = "returned" => FullImageAttemptCount <= 1

(* C29: during one extraction a full-image attempt is made only if no      *)
(* region-scoped attempt succeeded for any detected region, and at most    *)
(* one full-image attempt is made, whatever the number of regions.         *)
C29_OneFullImageFallbackPerExtraction ==
  FullImageOnlyWhenNoRegionSucceeded /\ FullImageAtMostOnce

(* The attempts of a list that succeeded with a positive price. *)
PositiveAttempts(attempts) ==
  {j \in 1..Len(attempts) : attempts[j].Success /\ attempts[j].Price > 0}

(* Confidence times 1.2 unless the attempt read the full image, times 1.1  *)
(* for an expansion factor from 1.5 to 2.5; in ten-thousandths.            *)
AttemptScore(attempt) ==
  attempt.Confidence
    * (IF attempt.Strategy = "full_image" THEN 10 ELSE 12)
    * (IF attempt.ExpansionFactor \in 15..25 THEN 11 ELSE 10)

ReportsNoResult == extraction.ocrResult.Strategy = "no_successful_attempts"

(* When a result is reported it is a positive-price attempt that no other  *)
(* positive-price attempt outscores.                                       *)
SelectedIsHighestScoring ==
  (extraction.pc = "selected" /\ ~ReportsNoResult) =>
    LET attempts == extraction.ocrResult.AllAttempts IN
    \E j \in PositiveAttempts(attempts) :
      /\ extraction.ocrResult.Price = attempts[j].Price
      /\ extraction.ocrResult.Confidence = attempts[j].Confidence
      /\ extraction.ocrResult.Strategy = attempts[j].Strategy
      /\ \A k \in PositiveAttempts(attempts) :
           AttemptScore(attempts[j]) >= AttemptScore(attempts[k])

NoResultOnlyWithoutPositiveAttempt ==
  (extraction.pc = "selected" /\ ReportsNoResult) =>
    PositiveAttempts(extraction.ocrResult.AllAttempts) = {}

(* C30: selectBestOCRResult returns the highest-scoring attempt among      *)
(* those of the region that succeeded with a positive price, and reports   *)
(* no result only when no attempt succeeded with a positive price.         *)
C30_HighestScoringPositiveAttemptWins ==
  SelectedIsHighestScoring /\ NoResultOnlyWithoutPositiveAttempt

----------------------------------------------------------------------------
(* Claims on the confidence of a vision extraction                         *)

(* The confidence the caller of the extractor received. *)
VisionConfidenceReceived ==
  IF extraction.caller = "extractAndMatchPrices" THEN ocr.ocrConfidence
  ELSE final.Confidence

VisionPriceReceived ==
  IF extraction.caller = "extractAndMatchPrices" THEN ocr.ocrPrice
  ELSE final.CurrentPrice

(* Twice the claimed confidence: detector confidence of a region whose     *)
(* selected attempt gave the winning price, plus that attempt's            *)
(* recognizer confidence.                                                  *)
WinningConfidenceSums ==
  {extraction.detectionDetails[d].YOLOConfidence
     + extraction.detectionDetails[d].OCRConfidence :
     d \in {e \in 1..Len(extraction.detectionDetails) :
              /\ extraction.detectionDetails[e].OCRPrice = extraction.bestPrice
              /\ extraction.detectionDetails[e].OCRStrategy = extraction.bestStrategy}}

ConfidenceIsRegionAverage ==
  2 * VisionConfidenceReceived \in WinningConfidenceSums

SuccessfulExtractionTaken ==
  extraction.pc = "handed" /\ extraction.outcome = "success"

(* C31: the confidence of every vision extraction result handed to the     *)
(* arbitration or returned to a caller equals (detector confidence of the  *)
(* region that produced the winning price + recognizer confidence of the   *)
(* winning attempt) / 2.                                                   *)
C31_VisionConfidenceIsRegionAverage ==
  SuccessfulExtractionTaken => ConfidenceIsRegionAverage

(* The same on the path into the arbitration alone. *)
ArbitrationConfidenceIsRegionAverage ==
  (SuccessfulExtractionTaken /\ extraction.caller = "extractAndMatchPrices")
    => ConfidenceIsRegionAverage

----------------------------------------------------------------------------
(* Claims on the choice among price candidates                             *)

(* The candidates that survive the pre-filter, all of them when none does. *)
SurvivingCandidates ==
  IF priceMatch.filtered = <<>> THEN priceMatch.candidates ELSE priceMatch.filtered

(* The total score of a candidate: the terms of calculateMatchScore. *)
TotalScore(candidate) == calculateMatchScore(candidate, priceMatch.productName)

ReturnedIsFirstMaximal ==
  /\ ~priceMatch.best.nil
  /\ priceMatch.best.index \in 1..Len(SurvivingCandidates)
  /\ priceMatch.best.candidate = SurvivingCandidates[priceMatch.best.index]
  /\ \A k \in 1..Len(SurvivingCandidates) :
       /\ TotalScore(SurvivingCandidates[k]) <= TotalScore(priceMatch.best.candidate)
       /\ (k < priceMatch.best.index =>
             TotalScore(SurvivingCandidates[k]) < TotalScore(priceMatch.best.candidate))

(* C32: for every non-empty candidate list findBestPriceMatch returns a    *)
(* candidate whose total score is maximal among the candidates that        *)
(* survive pre-filtering, the first seen of those that share the maximum.  *)
C32_BestCandidateIsFirstMaximal ==
  (priceMatch.pc = "returned" /\ Len(priceMatch.candidates) >= 1)
    => ReturnedIsFirstMaximal

(* The same when some surviving candidate has a positive score. *)
BestCandidateIsFirstMaximalWhenPositive ==
  (/\ priceMatch.pc = "returned"
   /\ Len(priceMatch.candidates) >= 1
   /\ \E k \in 1..Len(SurvivingCandidates) : TotalScore(SurvivingCandidates[k]) > 0)
    => ReturnedIsFirstMaximal

(* The median filterValidPrices uses for the call's candidates. *)
CallMedian == MedianPrice(priceMatch.candidates)

CallIsLuxury == PriceScraperIsLuxuryProduct(priceMatch.productName)

FilterReturned == priceMatch.pc = "returned" /\ priceMatch.candidates # <<>>

(* C33: filterValidPrices drops a candidate for being below 10% of the     *)
(* median or above 10 times the median only when the median exceeds the    *)
(* threshold of 100; at or below it neither bound removes a candidate, so  *)
(* only the luxury floor can.                                              *)
C33_MedianBoundsOnlyAboveThreshold ==
  (FilterReturned /\ CallMedian <= 100) =>
    priceMatch.filtered =
      SelectSeq(priceMatch.candidates, LAMBDA c : ~(CallIsLuxury /\ c.Price < 50))

(* C33 as the code has it: the low bound applies when the median exceeds   *)
(* 100, the high bound whenever the median is positive, also at or below   *)
(* 100; besides them only the luxury floor of 50 drops a candidate.        *)
C33_LowBoundAboveThresholdHighBoundAlways ==
  FilterReturned =>
    priceMatch.filtered =
      SelectSeq(priceMatch.candidates,
                LAMBDA c : /\ ~(CallMedian > 100 /\ 10 * c.Price < CallMedian)
                           /\ ~(CallMedian > 0 /\ c.Price > 10 * CallMedian)
                           /\ ~(CallIsLuxury /\ c.Price < 50))

(* A call with a median of at most 100 in which a candidate above ten     *)
(* times the median was dropped.                                           *)
C33_Witness ==
  /\ FilterReturned
  /\ CallMedian <= 100
  /\ ~CallIsLuxury
  /\ \E i \in 1..Len(priceMatch.candidates) :
       /\ priceMatch.candidates[i].Price > 10 * CallMedian
       /\ \A j \in 1..Len(priceMatch.filtered) :
            priceMatch.filtered[j].Price # priceMatch.candidates[i].Price

(* A median above 100 with a candidate below 10% of it, dropped. *)
LowBoundDropsAboveThreshold ==
  /\ FilterReturned
  /\ CallMedian > 100
  /\ ~CallIsLuxury
  /\ \E i \in 1..Len(priceMatch.candidates) :
       /\ 10 * priceMatch.candidates[i].Price < CallMedian
       /\ \A j \in 1..Len(priceMatch.filtered) :
            priceMatch.filtered[j].Price # priceMatch.candidates[i].Price

----------------------------------------------------------------------------
(* Claims on the locale parser                                             *)

ParsedBack == localeParse.pc = "parsed"

RoundTrips == ~localeParse.parsed.err /\ localeParse.parsed.value = localeParse.value

(* C34: for every value of two decimals and each supported format,         *)
(* ParsePrice applied to the value written in that format returns the      *)
(* value.                                                                  *)
C34_ParseOfFormattedIsValue == ParsedBack => RoundTrips

(* The same for the US/UK format alone. *)
USUKRoundTrips == (ParsedBack /\ localeParse.format = "us_uk") => RoundTrips

(* Whatever the format, the pattern that answers is us_uk. *)
FirstPatternAlwaysAnswers == ParsedBack => localeParse.parsed.pattern = "us_uk"

----------------------------------------------------------------------------
(* Claims on the retry window                                              *)

InRetryWindow == trackedURL.NextRetryAt # NULL /\ now < trackedURL.NextRetryAt

(* A step in which the given check path ran. *)
CheckRanOn(path) == lastCheck' # lastCheck /\ lastCheck'.path = path

(* The outcomes of a check that did not attempt an extraction. *)
NoExtractionOutcomes == {"rejected", "none_due", "skipped", "invalid_type"}

NoExtractionInWindowOn(path) ==
  (InRetryWindow /\ CheckRanOn(path)) => lastCheck'.outcome \in NoExtractionOutcomes

ManualRejectedInWindow ==
  (InRetryWindow /\ CheckRanOn("manual")) =>
    /\ lastCheck'.outcome = "rejected"
    /\ UNCHANGED <<trackedURL, priceHistory>>

(* C35: while now is before the target's nextRetryAt no extraction is      *)
(* attempted for it on any check path (manual, task, cron, retry), and a   *)
(* manual check in that window is rejected and leaves the retry state, the *)
(* price and the history unchanged.                                        *)
C35_NoExtractionBeforeNextRetryAt ==
  [][(\A path \in CheckPaths : NoExtractionInWindowOn(path)) /\ ManualRejectedInWindow]_vars

(* The same without the scheduled check. *)
NoExtractionBeforeNextRetryAtExceptCron ==
  [][(\A path \in CheckPaths \ {"cron"} : NoExtractionInWindowOn(path))
       /\ ManualRejectedInWindow]_vars

----------------------------------------------------------------------------
(* Claims on the task manager                                              *)

RunningCount == Cardinality(RunningWorkers(taskManager))

AtMostMaxWorkersRun == RunningCount <= maxWorkers

WorkersCounterExact ==
  /\ taskManager.workers >= 0
  /\ taskManager.workers = RunningCount

(* C36: under every interleaving of the dispatcher and the finishing       *)
(* workers, the workers running at the same time never exceed maxWorkers   *)
(* and the workers counter equals the number of running workers, never     *)
(* negative, never drifting.                                               *)
C36_WorkersBoundedAndCounted ==
  /\ AtMostMaxWorkersRun
  /\ WorkersCounterExact

WorkersNeverNegative == taskManager.workers >= 0

TaskSubmitted(t) == taskManager.status[t] # "none"

TaskTerminal(t) == taskManager.status[t] \in TerminalStatuses

(* C37: every task submitted to a task manager that is not stopped         *)
(* eventually reaches a terminal status, completed or failed, provided     *)
(* each price check returns and only finitely many tasks are submitted.    *)
C37_SubmittedTaskTerminates ==
  \A t \in TaskIDs : TaskSubmitted(t) ~> TaskTerminal(t)

(* A task that a worker took up and finished while another task was being  *)
(* re-queued at the maximum of workers.                                    *)
C37_Witness ==
  \E t \in TaskIDs, u \in TaskIDs :
    /\ TaskTerminal(t)
    /\ taskManager.worker[t].pc = "exited"
    /\ u \in taskManager.requeue

----------------------------------------------------------------------------
(* The manual checks of a target as time passes, after the user has        *)
(* chosen a single method for it: Handlers.CheckPriceNow is the path that  *)
(* hands the target to ScrapePriceWithHybridMethod again and again.  Init  *)
(* is what HandleUserChoice leaves for a target that was just added.  The  *)
(* user keeps asking for checks and the clock keeps running.               *)
InitTrust ==
  /\ now = 0
  /\ \E source \in ChosenSources, method \in {"network", "ocr"}, price \in Prices :
       /\ trackedURL =
            UpdateURLPrice(NewTrackedURL(<<"D","e","s","k"," ","L","a","m","p">>), price)
       /\ priceHistory = AddPriceHistory(<<>>, price)
       /\ scrapingPreferences = SavePreference({}, TargetID, method, UserChoiceConfidence)
       /\ preferences = SetPreferenceMap(NoPreferences, source, method)
       /\ lastCheck = Check("choice", "ok", "none", price, NULL, TRUE, FALSE, NULL)
  /\ initialScrape = "done"
  /\ feedbackHandlers = NoFeedbackHandlers
  /\ extraction = NoExtraction
  /\ priceMatch = NoPriceMatch
  /\ localeParse = NoLocaleParse
  /\ taskManager = NoTaskManager
  /\ ArbIdle
  /\ world = CHOOSE w \in Worlds : TRUE

NextTrust ==
  \/ CheckPriceNow
  \/ AdvanceTime

SpecTrust == InitTrust /\ [][NextTrust]_vars

FairTrust == WF_vars(CheckPriceNow) /\ WF_vars(AdvanceTime)

SpecTrustFair == SpecTrust /\ FairTrust

SingleMethods == {"network", "ocr"}

(* The table holds a single method for the target with a success rate      *)
(* above 0.8, and the target has no failed check behind it.                *)
TrustedSingleMethod ==
  /\ \E row \in TrustedDBPreference(scrapingPreferences, TargetID) :
       row.method \in SingleMethods
  /\ trackedURL.RetryCount = 0

NoCheckSucceeds == lastCheck.path \in {"initial", "manual"} => lastCheck.outcome # "ok"

(* Failures enough to take a success rate of 1.0 to 0.8 in steps of 0.1. *)
DemotingFailures == (MaxSuccessRate - TrustThreshold) \div SuccessRateStep

(* The last check was served by the single method and failed, and it was   *)
(* at least the second failure in a row.                                   *)
SingleMethodFailedRepeatedly ==
  /\ lastCheck.path = "manual"
  /\ lastCheck.outcome = "failed"
  /\ lastCheck.mode \in SingleMethods
  /\ trackedURL.RetryCount >= DemotingFailures

(* The target's success rate is at 0.8 or below and the dispatch runs the  *)
(* two-method arbitration.                                                 *)
Demoted ==
  /\ \A row \in GetPreference(scrapingPreferences, TargetID) :
       row.success_rate <= TrustThreshold
  /\ Mode = "hybrid"

SuccessRateNeverMoves ==
  \A row \in scrapingPreferences : row.success_rate = MaxSuccessRate

(* What the in-process map holds for a URL and what the table holds for a  *)
(* target, "none" where there is no entry.                                 *)
MapMethodOf(url) == IF url \in DOMAIN preferences THEN preferences[url] ELSE "none"

TableMethodOf(urlID) ==
  IF GetPreference(scrapingPreferences, urlID) = {} THEN "none"
  ELSE (CHOOSE row \in GetPreference(scrapingPreferences, urlID) : TRUE).method

(* C39: the in-process preference map and the scraping_preferences table   *)
(* never disagree about a target: what the map holds for the target's URL  *)
(* is what the table holds for the target's id, so that after              *)
(* SaveUserChoice both hold the chosen method and the next                 *)
(* ScrapePriceWithHybridMethod selects from one consistent value.          *)
C39_MapAndTableAgree == MapMethodOf(TargetURL) = TableMethodOf(TargetID)

(* The map is keyed by the choice's source: it has an entry for the        *)
(* target's URL only if a choice named that URL as its source.             *)
MapEntriesAreChosenSources == DOMAIN preferences \subseteq ChosenSources

(* The step is a feedback submission for which GetPreference answered      *)
(* without an error.                                                       *)
FeedbackAnswered == lastCheck'.path = "feedback"

NoStoredPreference == GetPreference(scrapingPreferences, TargetID) = {}

(* C40: SubmitPriceFeedback for a target that has no stored preference     *)
(* does not crash: it works on the default preference, applies the         *)
(* feedback adjustment to it and hands the result to SavePreference, so    *)
(* the request ends with the answer of the store.                          *)
C40_FeedbackWithoutPreferenceDoesNotCrash ==
  [][(NoStoredPreference /\ FeedbackAnswered) => lastCheck'.outcome \in {"ok", "failed"}]_vars

(* The handler panics only for a target without a stored preference, and   *)
(* then on every such request: the table is left as it was.                *)
FeedbackPanicsExactlyWithoutPreference ==
  [][FeedbackAnswered =>
       /\ (lastCheck'.outcome = "panic") = NoStoredPreference
       /\ NoStoredPreference => scrapingPreferences' = scrapingPreferences]_vars

====
